---- MODULE Spec2Model ----
(***************************************************************************)
(* Model of the EVerest libevse-security certificate store engine          *)
(* (EvseSecurity, X509CertificateBundle, X509CertificateHierarchy).        *)
(* The filesystem is a function from paths to file contents; certificates  *)
(* are records carrying the fields the crypto provider reads from X.509.   *)
(***************************************************************************)
EXTENDS Integers, Sequences, FiniteSets, TLC

VARIABLES
    cfg,            \* FilePaths and limits handed to the EvseSecurity constructor
    files,          \* the filesystem: path -> file content (regular files only)
    managed_csr,    \* EvseSecurity::managed_csr: key path -> time of CSR issue
    now,            \* the clock (seconds)
    security_mutex, \* EvseSecurity::security_mutex: the holder, or NoThread
    pc,             \* per thread: Idle, or the call the thread is inside of
    ret,            \* per thread: the value its last completed call returned
    fresh_key,      \* number of private keys generated so far
    csr_issued      \* history: key number -> time of the call that generated it

vars == <<cfg, files, managed_csr, now, security_mutex, pc, ret, fresh_key, csr_issued>>

----------------------------------------------------------------------------
(* Bounds of the model *)

MaxTime == 1          \* the clock runs 0..MaxTime
MaxRand == 0          \* random file names come from 0..MaxRand
MaxKeys == 1          \* keys are numbered 1..MaxKeys
MaxOcspFiles == 4     \* update_ocsp_cache leaves at most MaxOcspFiles files in the OCSP folders
MaxCerts == 4         \* a bundle given to build_hierarchy holds at most MaxCerts certificates
MaxHeld == 2          \* a bundle object is given certificates while it holds at most MaxHeld

(* Program constants *)

DEFAULT_MINIMUM_CERTIFICATE_ENTRIES == 10

----------------------------------------------------------------------------
(* Generic helpers *)

Range(s) == {s[i] : i \in 1..Len(s)}

RECURSIVE Flatten(_)
Flatten(ss) == IF ss = <<>> THEN <<>> ELSE Head(ss) \o Flatten(Tail(ss))

RECURSIVE SumSeq(_)
SumSeq(s) == IF s = <<>> THEN 0 ELSE Head(s) + SumSeq(Tail(s))

----------------------------------------------------------------------------
(* Paths.  A path is a sequence of component codes; the order of codes is   *)
(* the lexicographic order of the names they stand for.  A file name is     *)
(* prefix, random part and extension.                                       *)

EXT_PEM == 0
EXT_DER == 1
EXT_KEY == 2
EXT_TKEY == 3
EXT_HASH == 4
ExtCount == 5
RandCount == 16

\* file name prefixes, in lexicographic order of the strings
PFX_CPO_CSMS_CHAIN == 1   \* "CPO_CERT_CSMS_LEAF_CHAIN_"
PFX_CPO_SECC_CHAIN == 2   \* "CPO_CERT_SECC_LEAF_CHAIN_"
PFX_CSMS_LEAF == 3        \* "CSMS_LEAF_"
PFX_CSMS_ROOT == 4        \* "CSMS_ROOT_"
PFX_MF_ROOT == 5          \* "MF_ROOT_"
PFX_MO_ROOT == 6          \* "MO_ROOT_"
PFX_BUNDLE == 7           \* a configured bundle file, "ROOT_CA_BUNDLE"
PFX_SECC_LEAF == 8        \* "SECC_LEAF_"
PFX_V2G_ROOT == 9         \* "V2G_ROOT_"
PFX_OCSP == 10            \* random name inside an ocsp folder
OCSP_DIR == 900           \* the component "ocsp"

FileName(prefix, rand, ext) == (prefix * RandCount + rand) * ExtCount + ext

FilePath(dir, prefix, rand, ext) == Append(dir, FileName(prefix, rand, ext))

parent_path(p) == SubSeq(p, 1, Len(p) - 1)
filename(p) == p[Len(p)]
extension(p) == filename(p) % ExtCount
replace_extension(p, ext) == Append(parent_path(p), filename(p) - extension(p) + ext)

IsPrefix(d, p) == Len(d) <= Len(p) /\ SubSeq(p, 1, Len(d)) = d

\* fs::path operator< : lexicographic over the components
RECURSIVE PathLess(_, _)
PathLess(p, q) ==
    IF q = <<>> THEN FALSE
    ELSE IF p = <<>> THEN TRUE
    ELSE IF Head(p) # Head(q) THEN Head(p) < Head(q)
    ELSE PathLess(Tail(p), Tail(q))

RECURSIVE SortPaths(_)
SortPaths(S) ==
    IF S = {} THEN <<>>
    ELSE LET m == CHOOSE x \in S : \A y \in S \ {x} : PathLess(x, y)
         IN <<m>> \o SortPaths(S \ {m})

----------------------------------------------------------------------------
(* Certificates.  A certificate is the record of what the crypto provider   *)
(* reads from it; equality of records is x509_is_equal.                     *)

Cert(subject, issuer, key, signed_by, serial, not_before, not_after) ==
    [subject |-> subject, issuer |-> issuer, key |-> key, signed_by |-> signed_by,
     serial |-> serial, not_before |-> not_before, not_after |-> not_after]

x509_is_selfsigned(c) == c.issuer = c.subject /\ c.signed_by = c.key

x509_is_child(c, p) == c.issuer = p.subject /\ c.signed_by = p.key

get_valid_in(c, t) == c.not_before - t
get_valid_to(c, t) == c.not_after - t

\* a validity check that lets every certificate pass
is_valid_always(c, t) == TRUE

is_valid(c, t) == get_valid_in(c, t) <= 0 /\ get_valid_to(c, t) >= 0

is_expired(c, t) == get_valid_to(c, t) < 0

NoHash == [none |-> TRUE]

\* X509Wrapper::get_certificate_hash_data(): only legal on a self-signed one
get_certificate_hash_data_self(c) ==
    [issuer_name_hash |-> c.issuer, issuer_key_hash |-> c.key, serial_number |-> c.serial]

get_certificate_hash_data(c, issuer) ==
    [issuer_name_hash |-> c.issuer, issuer_key_hash |-> issuer.key, serial_number |-> c.serial]

x509_check_private_key(c, key) == c.key = key

----------------------------------------------------------------------------
(* X509CertificateHierarchy.  The forest is an arena: node[i] holds the     *)
(* indices of its children, top is the list of top-level nodes.  error      *)
(* records a thrown InvalidStateException.                                  *)

EmptyHierarchy == [top |-> <<>>, node |-> <<>>, error |-> FALSE]

RECURSIVE BfsQueue(_, _)
BfsQueue(h, queue) ==
    IF queue = <<>> THEN <<>>
    ELSE <<Head(queue)>> \o BfsQueue(h, Tail(queue) \o h.node[Head(queue)].children)

\* the order in which for_each visits the nodes
for_each(h) ==
    h.top \o BfsQueue(h, Flatten([i \in 1..Len(h.top) |-> h.node[h.top[i]].children]))

RECURSIVE for_each_descendant(_, _)
for_each_descendant(h, i) ==
    Flatten([k \in 1..Len(h.node[i].children) |->
                <<h.node[i].children[k]>> \o for_each_descendant(h, h.node[i].children[k])])

FirstWhere(order, P(_)) ==
    LET hits == {k \in 1..Len(order) : P(order[k])}
    IN IF hits = {} THEN 0 ELSE order[CHOOSE k \in hits : \A j \in hits : k <= j]

RemoveAt(s, i) == SubSeq(s, 1, i - 1) \o SubSeq(s, i + 1, Len(s))

SelectIdx(s, P(_)) ==
    LET F[i \in 0..Len(s)] == IF i = 0 THEN <<>> ELSE IF P(s[i]) THEN Append(F[i - 1], s[i]) ELSE F[i - 1]
    IN F[Len(s)]

insert_self_signed(h, c) ==
    LET n == Len(h.node) + 1
        others == h.top
        Orphan(i) == ~h.node[i].is_selfsigned
        Moves(i) == Orphan(i) /\ x509_is_child(h.node[i].certificate, c)
        moved == SelectIdx(others, Moves)
        kept == SelectIdx(others, LAMBDA i : ~Moves(i))
        bad == \E k \in 1..Len(others) : Orphan(others[k]) /\ h.node[others[k]].hash # NoHash
        new_root == [certificate |-> c, hash |-> get_certificate_hash_data_self(c), issuer |-> c,
                     is_selfsigned |-> TRUE, is_orphan |-> FALSE, children |-> moved]
        upd == [i \in 1..Len(h.node) |->
                   IF i \in Range(moved)
                   THEN [h.node[i] EXCEPT !.hash = get_certificate_hash_data(h.node[i].certificate, c),
                                          !.is_orphan = FALSE, !.issuer = c]
                   ELSE h.node[i]]
    IN IF bad THEN [h EXCEPT !.error = TRUE]
       ELSE [top |-> Append(kept, n), node |-> Append(upd, new_root), error |-> FALSE]

insert_issued(h, c) ==
    LET n == Len(h.node) + 1
        new_node == [certificate |-> c, hash |-> NoHash, issuer |-> c,
                     is_selfsigned |-> FALSE, is_orphan |-> FALSE, children |-> <<>>]
        Link(i) == x509_is_child(h.node[i].certificate, c) \/ x509_is_child(c, h.node[i].certificate)
        i == FirstWhere(for_each(h), Link)
    IN IF i = 0
       THEN [h EXCEPT !.top = Append(h.top, n), !.node = Append(h.node, new_node)]
       ELSE IF x509_is_child(h.node[i].certificate, c)
       THEN IF h.node[i].is_selfsigned \/ h.node[i].hash # NoHash
            THEN [h EXCEPT !.error = TRUE]
            ELSE LET temp_top == [h.node[i] EXCEPT
                                     !.is_selfsigned = FALSE, !.is_orphan = FALSE,
                                     !.hash = get_certificate_hash_data(h.node[i].certificate, c),
                                     !.issuer = c]
                 IN [h EXCEPT !.node = Append([h.node EXCEPT ![i] = [new_node EXCEPT !.children = <<n>>]],
                                              temp_top)]
       ELSE LET child == [new_node EXCEPT !.hash = get_certificate_hash_data(c, h.node[i].certificate),
                                          !.issuer = h.node[i].certificate]
            IN [h EXCEPT !.node = Append([h.node EXCEPT ![i].children = Append(@, n)], child)]

\* an insert that takes every certificate for an issued one
insert_as_issued(h, c) == IF h.error THEN h ELSE insert_issued(h, c)

insert(h, c) ==
    IF h.error THEN h
    ELSE IF x509_is_selfsigned(c) THEN insert_self_signed(h, c) ELSE insert_issued(h, c)

\* a node without its hash, given an issuer
link_to_unhashed(node, issuer) == [node EXCEPT !.is_orphan = FALSE, !.issuer = issuer]

\* prune gives an orphan its issuer: the hash is computed against it
link_to(node, issuer) ==
    [node EXCEPT !.hash = get_certificate_hash_data(node.certificate, issuer),
                 !.is_orphan = FALSE,
                 !.issuer = issuer]

RECURSIVE prune_from(_, _)
prune_from(h, i) ==
    IF i > Len(h.top) THEN h
    ELSE LET o == h.top[i]
             orphan == h.node[o]
         IN IF orphan.is_selfsigned \/ orphan.is_orphan THEN prune_from(h, i + 1)
            ELSE LET Issues(j) == j # o /\ x509_is_child(orphan.certificate, h.node[j].certificate)
                     f == FirstWhere(for_each(h), Issues)
                 IN IF f = 0
                    THEN prune_from([h EXCEPT !.node[o].is_orphan = TRUE], i + 1)
                    ELSE prune_from(
                           [h EXCEPT !.node[o] = link_to(orphan, h.node[f].certificate),
                                     !.node[f].children = Append(@, o),
                                     !.top = RemoveAt(h.top, i)],
                           i)

\* a prune that leaves the hierarchy as insert left it
prune_skipped(h) == h

prune(h) == IF h.error \/ Len(h.top) <= 1 THEN h ELSE prune_from(h, 1)

\* only the first certificate of a list is inserted
insert_first(h, certs) == IF certs = <<>> THEN h ELSE insert(h, Head(certs))

RECURSIVE insert_all(_, _)
insert_all(h, certs) == IF certs = <<>> THEN h ELSE insert_all(insert(h, Head(certs)), Tail(certs))

Reverse(s) == [i \in 1..Len(s) |-> s[Len(s) + 1 - i]]

\* build_hierarchy(std::vector<X509Wrapper>&): inserts from the back
build_hierarchy(certs) == prune(insert_all(EmptyHierarchy, Reverse(certs)))

\* build_hierarchy(roots, leaves): every list in turn, then one prune
build_hierarchy2(roots, leaves) == prune(insert_all(EmptyHierarchy, roots \o leaves))

find_certificate(h, hash) ==
    LET i == FirstWhere(for_each(h), LAMBDA j : h.node[j].hash # NoHash /\ h.node[j].hash = hash)
    IN IF i = 0 THEN <<>> ELSE <<h.node[i].certificate>>

find_certificates_multi(h, hash) ==
    LET order == for_each(h)
    IN SelectIdx([k \in 1..Len(order) |-> h.node[order[k]]], LAMBDA nd : nd.hash = hash)

contains_certificate_hash(h, hash) ==
    \E i \in 1..Len(h.node) : h.node[i].hash # NoHash /\ h.node[i].hash = hash

collect_descendants(h, top) ==
    LET i == FirstWhere(for_each(h), LAMBDA j : h.node[j].certificate = top)
    IN IF i = 0 THEN <<>>
       ELSE LET d == for_each_descendant(h, i) IN [k \in 1..Len(d) |-> h.node[d[k]].certificate]

\* a default-constructed CertificateHashData
EmptyHashData == [issuer_name_hash |-> 0, issuer_key_hash |-> 0, serial_number |-> 0]

\* get_certificate_hash(certificate, out_hash): `bool found` has no
\* initializer and for_each assigns it only on a match, so without a match
\* the value that is read is any; uninitialized is the value it then reads as
get_certificate_hash_out(h, c, uninitialized) ==
    IF x509_is_selfsigned(c) THEN [ok |-> TRUE, out_hash |-> get_certificate_hash_data_self(c)]
    ELSE LET i == FirstWhere(for_each(h), LAMBDA j : h.node[j].certificate = c /\ h.node[j].hash # NoHash)
         IN IF i # 0 THEN [ok |-> TRUE, out_hash |-> h.node[i].hash]
            ELSE IF uninitialized THEN [ok |-> TRUE, out_hash |-> EmptyHashData]
            ELSE [ok |-> FALSE, out_hash |-> NoHash]

\* the hash of get_certificate_hash where the flag reads as false without a match
get_certificate_hash(h, c) ==
    IF x509_is_selfsigned(c) THEN get_certificate_hash_data_self(c)
    ELSE LET i == FirstWhere(for_each(h), LAMBDA j : h.node[j].certificate = c /\ h.node[j].hash # NoHash)
         IN IF i = 0 THEN NoHash ELSE h.node[i].hash

----------------------------------------------------------------------------
(* The filesystem and the file contents *)

PemFile(certs) == [kind |-> "pem", certs |-> certs]
KeyFile(key) == [kind |-> "key", key |-> key]
HashFile(hash) == [kind |-> "hash", hash |-> hash]
OcspFile(data) == [kind |-> "ocsp", data |-> data]
\* a symbolic link and the path it holds
LinkFile(target) == [kind |-> "link", target |-> target]

Restrict(f, S) == [x \in S |-> f[x]]

exists(fs, p) == p \in DOMAIN fs
is_regular_file(fs, p) == p \in DOMAIN fs

\* every regular file at or below dir, as fs::recursive_directory_iterator finds them
FilesUnder(fs, dir) == {p \in DOMAIN fs : IsPrefix(dir, p) /\ p # dir}

\* the regular files directly inside dir, as fs::directory_iterator finds them
FilesIn(fs, dir) == {p \in DOMAIN fs : parent_path(p) = dir}

\* filesystem_utils::delete_file: false when there is no such regular file
delete_file(fs, p) == [fs |-> Restrict(fs, DOMAIN fs \ {p}), ok |-> p \in DOMAIN fs]

\* filesystem_utils::write_to_file; io is the outcome of the write
write_to_file(fs, p, content, io) ==
    IF io THEN [fs |-> [q \in DOMAIN fs \cup {p} |-> IF q = p THEN content ELSE fs[q]], ok |-> TRUE]
    ELSE [fs |-> fs, ok |-> FALSE]

DeleteAll(fs, S) == Restrict(fs, DOMAIN fs \ S)

file_size(content) == IF content.kind = "pem" THEN Len(content.certs) ELSE 1

\* PEM_X509_INFO_read_bio: the certificates of the PEM blocks found; a file
\* without any PEM block (a key, an OCSP response) yields none
load_certificates(content) == IF content.kind = "pem" THEN content.certs ELSE <<>>

is_certificate_file(fs, p) ==
    is_regular_file(fs, p) /\ extension(p) \in {EXT_PEM, EXT_DER}

is_keyfile(fs, p) ==
    is_regular_file(fs, p) /\ extension(p) \in {EXT_KEY, EXT_TKEY}

----------------------------------------------------------------------------
(* X509CertificateBundle: source, path and the map chain file -> certificates *)

LoadError == [source |-> "LOAD_ERROR", path |-> <<>>, certificates |-> <<>>]

\* X509CertificateBundle(const std::string&): the parsed certificates of a string
BundleOfString(certs) == [source |-> "STRING", path |-> <<>>, certificates |-> (<<>> :> certs)]

\* X509CertificateBundle(const fs::path&)
BundleOfPath(fs, dirs, path) ==
    IF path \in dirs
    THEN [source |-> "DIRECTORY", path |-> path,
          certificates |-> [p \in {q \in FilesUnder(fs, path) : is_certificate_file(fs, q)} |->
                               load_certificates(fs[p])]]
    ELSE IF is_certificate_file(fs, path)
    THEN [source |-> "FILE", path |-> path, certificates |-> (path :> load_certificates(fs[path]))]
    ELSE LoadError

chain_paths(b) == SortPaths(DOMAIN b.certificates)

split(b) == LET ps == chain_paths(b) IN Flatten([i \in 1..Len(ps) |-> b.certificates[ps[i]]])

get_certificate_chains_count(b) == Cardinality(DOMAIN b.certificates)

get_certificate_count(b) == Len(split(b))

contains_certificate(b, c) == \E p \in DOMAIN b.certificates : c \in Range(b.certificates[p])

get_certificate_hierarchy(b) == build_hierarchy(split(b))

\* a delete that takes every certificate of the bundle
bundle_delete_certificate_all(b, c, include_issued) ==
    [bundle |-> [b EXCEPT !.certificates = [p \in DOMAIN b.certificates |-> <<>>]], deleted |-> split(b)]

\* delete_certificate(const X509Wrapper&, include_issued)
bundle_delete_certificate(b, c, include_issued) ==
    LET deleting(to_delete) ==
            [bundle |-> [b EXCEPT !.certificates =
                            [p \in DOMAIN b.certificates |->
                                SelectIdx(b.certificates[p], LAMBDA x : x \notin Range(to_delete))]],
             deleted |-> SelectIdx(split(b), LAMBDA x : x \in Range(to_delete))]
    IN deleting((IF include_issued THEN collect_descendants(get_certificate_hierarchy(b), c) ELSE <<>>)
                \o <<c>>)

\* delete_certificate(const CertificateHashData&, include_issued)
bundle_delete_certificate_hash(b, hash, include_issued) ==
    LET deleting(found) == IF found = <<>> THEN [bundle |-> b, deleted |-> <<>>]
                           ELSE bundle_delete_certificate(b, found[1], include_issued)
    IN deleting(find_certificate(get_certificate_hierarchy(b), hash))

\* an add that leaves the bundle as it was
add_certificate_dropped(b, c, file) == b

\* add_certificate; in a directory bundle file is the path set on the certificate
add_certificate(b, c, file) ==
    IF b.source = "DIRECTORY"
    THEN [b EXCEPT !.certificates =
             [p \in DOMAIN b.certificates \cup {file} |->
                 IF p \in DOMAIN b.certificates THEN
                     (IF p = file THEN Append(b.certificates[p], c) ELSE b.certificates[p])
                 ELSE <<c>>]]
    ELSE LET first == chain_paths(b)[1]
         IN [b EXCEPT !.certificates[first] = Append(@, c)]

\* an update that finds no equal certificate
update_certificate_missing(b, c) == [bundle |-> b, ok |-> FALSE]

\* update_certificate: the first equal certificate is replaced by the new one
update_certificate(b, c) == [bundle |-> b, ok |-> contains_certificate(b, c)]

\* sync_to_certificate_store followed by the writes of export_certificates;
\* io is the outcome of the writes
export_certificates(fs, dirs, b, io) ==
    IF b.source = "DIRECTORY"
    THEN LET mine == DOMAIN b.certificates
             empty == {p \in mine : b.certificates[p] = <<>>}
             written(synced) == [p \in DOMAIN synced \cup (mine \ empty) |->
                                    IF p \in mine \ empty THEN PemFile(b.certificates[p]) ELSE synced[p]]
             exported(synced, sync_ok) ==
                 IF ~sync_ok THEN [fs |-> synced, ok |-> FALSE]
                 ELSE IF io THEN [fs |-> written(synced), ok |-> TRUE]
                 ELSE [fs |-> synced, ok |-> mine \ empty = {}]
             sync(on_disk, absent, removed) ==
                 exported(IF io THEN [p \in DOMAIN removed \cup absent |->
                                         IF p \in absent THEN PemFile(b.certificates[p]) ELSE removed[p]]
                          ELSE removed,
                          empty \subseteq DOMAIN fs /\ (io \/ absent = {}))
             stored(on_disk) == sync(on_disk, (mine \ empty) \ on_disk,
                                     DeleteAll(fs, (on_disk \ mine) \cup empty))
         IN stored(DOMAIN BundleOfPath(fs, dirs, b.path).certificates)
    ELSE IF b.source = "FILE"
    THEN LET exported(synced) == IF ~synced.ok THEN [fs |-> synced.fs, ok |-> FALSE]
                                 ELSE write_to_file(synced.fs, b.path, PemFile(split(b)), io)
         IN exported(IF DOMAIN b.certificates = {} THEN delete_file(fs, b.path)
                     ELSE [fs |-> fs, ok |-> TRUE])
    ELSE [fs |-> fs, ok |-> FALSE]

----------------------------------------------------------------------------
(* The certificates and directories of the model *)

FarFuture == 9

\* subjects and keys are numbers: roots and sub-CA 101.., leaves by their key
V2G_ROOT == Cert(101, 101, 101, 101, 1, 0, FarFuture)
CSMS_ROOT == Cert(102, 102, 102, 102, 2, 0, FarFuture)
EXPIRED_ROOT == Cert(103, 103, 103, 103, 3, 0 - 2, 0 - 1)
\* a root whose validity ends at time 0
SHORT_ROOT == Cert(105, 105, 105, 105, 5, 0, 0)
SUB_CA == Cert(104, 101, 104, 101, 4, 0, FarFuture)
\* a root that is never installed, and a leaf it issued
OTHER_ROOT == Cert(106, 106, 106, 106, 6, 0, FarFuture)
\* the first sub-CA renewed: the same subject and key under a new serial number
SUB_CA_RENEWED == Cert(104, 101, 104, 101, 8, 0, FarFuture)
\* a second sub-CA, issued by the first
SUB_CA2 == Cert(107, 104, 107, 104, 7, 0, FarFuture)

\* a leaf holding the public key `key`, issued by issuer
Leaf(issuer, key, not_after) ==
    Cert(200 + 10 * key + not_after, issuer.subject, key, issuer.key, 10 * key + not_after, 0, not_after)

D_CERTS == <<1>>
D_CA == <<1, 1>>
D_CA_CSMS == <<1, 1, 1>>
D_CLIENT == <<1, 2>>
D_CSMS == <<1, 2, 1>>
D_CSO == <<1, 2, 2>>
D_KEYS == <<1, 3>>

Directories == {D_CERTS, D_CA, D_CA_CSMS, D_CLIENT, D_CSMS, D_CSO, D_KEYS,
                Append(D_CLIENT, OCSP_DIR), Append(D_CSMS, OCSP_DIR), Append(D_CSO, OCSP_DIR),
                Append(D_CA, OCSP_DIR)}

V2G_BUNDLE == FilePath(D_CA, PFX_BUNDLE, 0, EXT_PEM)
MO_BUNDLE == FilePath(D_CA, PFX_BUNDLE, 1, EXT_PEM)
CSMS_BUNDLE == FilePath(D_CA, PFX_BUNDLE, 2, EXT_PEM)
INNER_BUNDLE == FilePath(D_CSO, PFX_BUNDLE, 3, EXT_PEM)

CaTypes == <<"V2G", "MO", "CSMS", "MF">>   \* the order of enum CaCertificateType

FilePaths(v2g, mo, csms, mf, csms_cert, csms_key, secc_cert, secc_key) ==
    [ca_bundle_path_map |-> [V2G |-> v2g, MO |-> mo, CSMS |-> csms, MF |-> mf],
     csms_leaf_cert_directory |-> csms_cert, csms_leaf_key_directory |-> csms_key,
     secc_leaf_cert_directory |-> secc_cert, secc_leaf_key_directory |-> secc_key]

\* the layout of the unit tests: certificates and keys side by side
PathsSplit == FilePaths(V2G_BUNDLE, MO_BUNDLE, CSMS_BUNDLE, MO_BUNDLE, D_CSMS, D_CSMS, D_CSO, D_CSO)
\* one leaf directory shared by both roles
PathsShared == FilePaths(V2G_BUNDLE, MO_BUNDLE, CSMS_BUNDLE, MO_BUNDLE, D_CLIENT, D_CLIENT, D_CLIENT, D_CLIENT)
\* the keys in a directory of their own, the CSMS roots in a directory
PathsKeys == FilePaths(V2G_BUNDLE, MO_BUNDLE, D_CA_CSMS, MO_BUNDLE, D_CSMS, D_KEYS, D_CSO, D_KEYS)
\* the V2G bundle file inside the SECC leaf directory
PathsInner == FilePaths(INNER_BUNDLE, MO_BUNDLE, CSMS_BUNDLE, MO_BUNDLE, D_CSMS, D_CSMS, D_CSO, D_CSO)
\* a leaf directory that is a CA bundle directory: refused by the constructor
PathsOverlap == FilePaths(V2G_BUNDLE, MO_BUNDLE, D_CSMS, MO_BUNDLE, D_CSMS, D_CSMS, D_CSO, D_CSO)

\* the FilePaths with the limits the constructor stores beside them
Config(paths, max_fs_usage_bytes, max_fs_certificate_store_entries, csr_expiry) ==
    [ca_bundle_path_map |-> paths.ca_bundle_path_map,
     csms_leaf_cert_directory |-> paths.csms_leaf_cert_directory,
     csms_leaf_key_directory |-> paths.csms_leaf_key_directory,
     secc_leaf_cert_directory |-> paths.secc_leaf_cert_directory,
     secc_leaf_key_directory |-> paths.secc_leaf_key_directory,
     max_fs_usage_bytes |-> max_fs_usage_bytes,
     max_fs_certificate_store_entries |-> max_fs_certificate_store_entries,
     csr_expiry |-> csr_expiry]

LeafDirs(c) == <<c.csms_leaf_cert_directory, c.csms_leaf_key_directory,
                 c.secc_leaf_cert_directory, c.secc_leaf_key_directory>>

\* EvseSecurity::EvseSecurity: the overlap check of the constructor
ConstructorAccepts(c) ==
    \A i \in 1..4 : \A k \in 1..4 : c.ca_bundle_path_map[CaTypes[k]] # LeafDirs(c)[i]

\* EvseSecurity::EvseSecurity: a missing bundle is created as an empty file
ConstructedFiles(c, fs) ==
    LET missing == {c.ca_bundle_path_map[CaTypes[k]] : k \in 1..4} \ (DOMAIN fs \cup Directories)
    IN [p \in DOMAIN fs \cup missing |-> IF p \in DOMAIN fs THEN fs[p] ELSE PemFile(<<>>)]

----------------------------------------------------------------------------
(* Helpers of evse_security.cpp *)

None == <<>>
Some(x) == <<x>>

MinPath(S) == CHOOSE x \in S : \A y \in S \ {x} : PathLess(x, y)
MaxPath(S) == CHOOSE x \in S : \A y \in S \ {x} : PathLess(y, x)

KeyMatches(fs, p, c) == fs[p].kind = "key" /\ x509_check_private_key(c, fs[p].key)

\* get_private_key_path_of_certificate: file is the certificate's file, or None
get_private_key_path_of_certificate(fs, c, file, key_path_directory) ==
    LET named == IF file = None THEN {}
                 ELSE {p \in {replace_extension(file[1], EXT_KEY), replace_extension(file[1], EXT_TKEY)} :
                          exists(fs, p) /\ KeyMatches(fs, p, c)}
        scanned == {p \in FilesUnder(fs, key_path_directory) : is_keyfile(fs, p) /\ KeyMatches(fs, p, c)}
    IN IF named # {} THEN Some(MinPath(named))
       ELSE IF scanned # {} THEN Some(MinPath(scanned))
       ELSE None

\* get_certificate_path_of_key: the chain files holding a certificate of the
\* key; the empty set stands for the thrown NoCertificateValidException
get_certificate_path_of_key(fs, key, certificate_path_directory) ==
    LET cert_filename == replace_extension(key, EXT_PEM)
        by_name == IF exists(fs, cert_filename) /\
                      \E i \in 1..Len(load_certificates(fs[cert_filename])) :
                          KeyMatches(fs, key, load_certificates(fs[cert_filename])[i])
                   THEN {cert_filename} ELSE {}
        b == BundleOfPath(fs, Directories, certificate_path_directory)
        in_dir == {p \in DOMAIN b.certificates :
                      \E i \in 1..Len(b.certificates[p]) : KeyMatches(fs, key, b.certificates[p][i])}
    IN IF by_name # {} THEN by_name ELSE in_dir

\* get_oscp_data_of_certificate: the hash file and the data file, or None
get_oscp_data_of_certificate(fs, file, hash) ==
    IF file = None THEN None
    ELSE LET ocsp_path == Append(parent_path(file[1]), OCSP_DIR)
             hits == {p \in FilesIn(fs, ocsp_path) : fs[p].kind = "hash" /\ fs[p].hash = hash}
         IN IF hits = {} THEN None
            ELSE LET h == MinPath(hits)
                     d == replace_extension(h, EXT_DER)
                 IN IF exists(fs, d) THEN Some(<<h, d>>) ELSE None

TrackedFiles(c, fs) ==
    LET roots == {c.ca_bundle_path_map[CaTypes[k]] : k \in 1..4} \cup Range(LeafDirs(c))
    IN UNION {IF is_regular_file(fs, r) THEN {r}
              ELSE IF r \in Directories THEN FilesUnder(fs, r) ELSE {} : r \in roots}

\* EvseSecurity::is_filesystem_full: the size compared with the cap is the one
\* of the last path of the set, each size being assigned over the one before
is_filesystem_full(c, fs) ==
    LET unique_paths == TrackedFiles(c, fs)
        total_entries == Cardinality(unique_paths)
        total_size_bytes == IF unique_paths = {} THEN 0 ELSE file_size(fs[MaxPath(unique_paths)])
    IN \/ total_entries > c.max_fs_certificate_store_entries
       \/ total_size_bytes >= c.max_fs_usage_bytes

\* EvseSecurity::is_ca_certificate_installed_internal
is_ca_certificate_installed_internal(c, fs, t, certificate_type) ==
    LET valid_root(h) == \E i \in 1..Len(h.top) : /\ x509_is_selfsigned(h.node[h.top[i]].certificate)
                                                  /\ is_valid(h.node[h.top[i]].certificate, t)
        loaded(b) == b # LoadError /\ valid_root(get_certificate_hierarchy(b))
    IN loaded(BundleOfPath(fs, Directories, c.ca_bundle_path_map[certificate_type]))

\* CryptoSupplier::x509_verify_certificate_chain with allow_future_validity
RECURSIVE verify_from(_, _, _, _, _)
verify_from(c, trusted, untrusted, t, fuel) ==
    IF is_expired(c, t) THEN "Expired"
    ELSE IF c \in trusted /\ x509_is_selfsigned(c) THEN "Valid"
    ELSE LET issuers == {p \in trusted \cup untrusted : p # c /\ x509_is_child(c, p)}
         IN IF issuers = {} \/ fuel = 0 THEN "IssuerNotFound"
            ELSE verify_from(CHOOSE p \in issuers : TRUE, trusted, untrusted, t, fuel - 1)

x509_verify_certificate_chain(leaf, trusted, untrusted, t) ==
    verify_from(leaf, trusted, untrusted, t, Cardinality(trusted \cup untrusted))

LeafToCa(leaf_type) == leaf_type

\* every certificate of the chain taken as an untrusted intermediate
untrusted_subcas_all(chain) == Range(chain)

\* untrusted_subcas of verify_certificate_internal: the certificates after
\* the first that are not self-signed
untrusted_subcas(chain) ==
    {chain[i] : i \in 2..Len(chain)} \ {x \in Range(chain) : x509_is_selfsigned(x)}

\* the certificates of every CA bundle that has a root installed
trusted_parent_certificates_all(c, fs, t, certificate_types) ==
    UNION {Range(split(BundleOfPath(fs, Directories, c.ca_bundle_path_map[ty]))) :
              ty \in {ty \in {"V2G", "MO", "CSMS", "MF"} : is_ca_certificate_installed_internal(c, fs, t, ty)}}

\* trusted_parent_certificates of verify_certificate_internal: the
\* certificates of the CA bundles of the types that have a root installed
trusted_parent_certificates(c, fs, t, certificate_types) ==
    UNION {Range(split(BundleOfPath(fs, Directories, c.ca_bundle_path_map[LeafToCa(ty)]))) :
              ty \in {ty \in certificate_types : is_ca_certificate_installed_internal(c, fs, t, LeafToCa(ty))}}

\* EvseSecurity::verify_certificate_internal; chain is the parsed input
verify_certificate_internal(c, fs, t, chain, certificate_types) ==
    IF certificate_types = {} THEN "IssuerNotFound"
    ELSE IF chain = <<>> THEN "Unknown"
    ELSE LET verified(trusted) == IF trusted = {} THEN "IssuerNotFound"
                                  ELSE x509_verify_certificate_chain(chain[1], trusted,
                                                                     untrusted_subcas(chain), t)
         IN verified(trusted_parent_certificates(c, fs, t, certificate_types))

\* a conversion that turns every outcome of the verification into Accepted
to_install_certificate_result_accepting(error) == "Accepted"

to_install_certificate_result(error) ==
    CASE error = "Valid" -> "Accepted"
      [] error = "Expired" -> "Expired"
      [] error = "InvalidSignature" -> "InvalidSignature"
      [] error = "InvalidChain" -> "InvalidCertificateChain"
      [] error = "InvalidLeafSignature" -> "InvalidSignature"
      [] error = "IssuerNotFound" -> "NoRootCertificateInstalled"
      [] OTHER -> "InvalidFormat"

----------------------------------------------------------------------------
(* EvseSecurity::delete_certificate *)

\* the loop over ca_bundle_path_map: one bundle is loaded, searched and exported
delete_from_ca_bundle(c, st, certificate_hash_data, certificate_type, io) ==
    LET exported(e) == [st EXCEPT !.fs = e.fs,
                                  !.found_certificate = TRUE,
                                  !.ca_certificate_type = Some(certificate_type),
                                  !.failed_to_write = st.failed_to_write \/ ~e.ok,
                                  !.deleted_root_certificate = st.deleted_root_certificate \/ e.ok]
        deleted(d) == IF d.deleted = <<>> THEN st
                      ELSE exported(export_certificates(st.fs, Directories, d.bundle, io))
        loaded(ca_bundle) == IF ca_bundle = LoadError THEN st
                             ELSE deleted(bundle_delete_certificate_hash(ca_bundle, certificate_hash_data, TRUE))
    IN loaded(BundleOfPath(st.fs, Directories, c.ca_bundle_path_map[certificate_type]))

RECURSIVE delete_from_ca_bundles(_, _, _, _, _)
delete_from_ca_bundles(c, st, certificate_hash_data, types, io) ==
    IF types = <<>> THEN st
    ELSE delete_from_ca_bundles(c, delete_from_ca_bundle(c, st, certificate_hash_data, Head(types),
                                                         io[Head(types)]),
                                certificate_hash_data, Tail(types), io)

\* true when the directory is treated as holding the ChargingStationCertificate
is_csms_leaf_directory(c, leaf_certificate_path) ==
    \/ leaf_certificate_path = c.csms_leaf_cert_directory
    \/ c.csms_leaf_cert_directory = c.secc_leaf_cert_directory

\* a body of the inner loop that refuses every directory, as if each one held
\* the ChargingStationCertificate
delete_chain_certificate_refused(csms, path, key_dir, certificate_hash_data, st, deleted_leaf) ==
    [st EXCEPT !.failed_to_write = TRUE]

\* the body of the inner loop: one certificate of a chain that is to go
delete_chain_certificate(csms, path, key_dir, certificate_hash_data, st, deleted_leaf) ==
    IF csms THEN [st EXCEPT !.failed_to_write = TRUE]
    ELSE LET without_ocsp(fs1, ocsp) ==
                 IF ocsp # None THEN DeleteAll(fs1, {ocsp[1][1], ocsp[1][2]}) ELSE fs1
             clear_ocsp(fs1) ==
                 without_ocsp(fs1, get_oscp_data_of_certificate(fs1, Some(path), certificate_hash_data))
             clear_key(fs0, key_path) ==
                 clear_ocsp(IF key_path # None THEN delete_file(fs0, key_path[1]).fs ELSE fs0)
             deleted(del) ==
                 [fs |-> IF st.failed_to_write \/ ~del.ok THEN del.fs
                         ELSE clear_key(del.fs, get_private_key_path_of_certificate(
                                                    del.fs, deleted_leaf, Some(path), key_dir)),
                  failed_to_write |-> st.failed_to_write \/ ~del.ok,
                  deleted_full_file |-> st.deleted_full_file \/ del.ok]
         IN deleted(IF st.deleted_full_file THEN [fs |-> st.fs, ok |-> TRUE] ELSE delete_file(st.fs, path))

RECURSIVE delete_chain_certificates(_, _, _, _, _, _)
delete_chain_certificates(csms, path, key_dir, certificate_hash_data, st, chain) ==
    IF chain = <<>> THEN st
    ELSE delete_chain_certificates(csms, path, key_dir, certificate_hash_data,
             delete_chain_certificate(csms, path, key_dir, certificate_hash_data, st, Head(chain)),
             Tail(chain))

\* for_each_chain of the leaf bundle: chains holding a certificate to delete
RECURSIVE delete_leaf_chains(_, _, _, _, _, _, _, _)
delete_leaf_chains(c, leaf_bundle, leafs_to_delete, csms, key_dir, certificate_hash_data, st, paths) ==
    IF paths = <<>> THEN st
    ELSE LET chain == leaf_bundle.certificates[Head(paths)]
             chain_deleted(r) == [st EXCEPT !.fs = r.fs, !.failed_to_write = r.failed_to_write,
                                            !.found_certificate = TRUE]
         IN delete_leaf_chains(c, leaf_bundle, leafs_to_delete, csms, key_dir, certificate_hash_data,
                IF \E i \in 1..Len(chain) : chain[i] \in Range(leafs_to_delete)
                THEN chain_deleted(delete_chain_certificates(
                         csms, Head(paths), key_dir, certificate_hash_data,
                         [fs |-> st.fs, failed_to_write |-> st.failed_to_write, deleted_full_file |-> FALSE],
                         chain))
                ELSE st,
                Tail(paths))

\* one round of the loop over the leaf directories
delete_from_leaf_directory(c, st, certificate_hash_data, leaf_certificate_type) ==
    LET leaf_certificate_path == IF leaf_certificate_type = "CSMS" THEN c.csms_leaf_cert_directory
                                 ELSE c.secc_leaf_cert_directory
        leaf_certificate_key == IF leaf_certificate_type = "CSMS" THEN c.csms_leaf_key_directory
                                ELSE c.secc_leaf_key_directory
        root_load == IF leaf_certificate_path = c.secc_leaf_cert_directory THEN "V2G" ELSE "CSMS"
        typed(leaf_bundle, leafs_to_delete, r) ==
            IF \E p \in DOMAIN leaf_bundle.certificates :
                   \E i \in 1..Len(leaf_bundle.certificates[p]) :
                       leaf_bundle.certificates[p][i] \in Range(leafs_to_delete)
            THEN [r EXCEPT !.leaf_certificate_type = Some(leaf_certificate_type)]
            ELSE r
        deleting(leaf_bundle, leafs_to_delete) ==
            typed(leaf_bundle, leafs_to_delete,
                  delete_leaf_chains(c, leaf_bundle, leafs_to_delete,
                                     is_csms_leaf_directory(c, leaf_certificate_path), leaf_certificate_key,
                                     certificate_hash_data, st, chain_paths(leaf_bundle)))
        found(leaf_bundle, hierarchy) ==
            IF hierarchy.error THEN [st EXCEPT !.thrown = TRUE]
            ELSE deleting(leaf_bundle, LET multi == find_certificates_multi(hierarchy, certificate_hash_data)
                                       IN [i \in 1..Len(multi) |-> multi[i].certificate])
        loaded(leaf_bundle, base_roots) == found(leaf_bundle, build_hierarchy2(base_roots, split(leaf_bundle)))
    IN loaded(BundleOfPath(st.fs, Directories, leaf_certificate_path),
              split(BundleOfPath(st.fs, Directories, c.ca_bundle_path_map[root_load])))

\* the loop over the leaf directories, left when an exception is thrown
RECURSIVE delete_from_leaf_directories(_, _, _, _)
delete_from_leaf_directories(c, st, certificate_hash_data, leaf_certificate_types) ==
    IF leaf_certificate_types = <<>> \/ st.thrown THEN st
    ELSE delete_from_leaf_directories(
             c, delete_from_leaf_directory(c, st, certificate_hash_data, Head(leaf_certificate_types)),
             certificate_hash_data, Tail(leaf_certificate_types))

\* EvseSecurity::delete_certificate: the files afterwards and the DeleteResult
delete_certificate(c, fs, certificate_hash_data, io) ==
    LET leafs(st) == [fs |-> st.fs,
                      result |-> IF st.thrown THEN "InvalidStateException"
                                 ELSE IF ~st.found_certificate THEN "NotFound"
                                 ELSE IF st.failed_to_write THEN "Failed"
                                 ELSE "Accepted"]
        roots(st) == IF st.deleted_root_certificate
                     THEN [fs |-> st.fs, result |-> IF st.failed_to_write THEN "Failed" ELSE "Accepted"]
                     ELSE leafs(delete_from_leaf_directories(c, st, certificate_hash_data, <<"V2G", "CSMS">>))
    IN roots(delete_from_ca_bundles(
                 c, [fs |-> fs, found_certificate |-> FALSE, failed_to_write |-> FALSE,
                     deleted_root_certificate |-> FALSE, ca_certificate_type |-> None,
                     leaf_certificate_type |-> None, thrown |-> FALSE],
                 certificate_hash_data, CaTypes, io))

----------------------------------------------------------------------------
(* EvseSecurity::install_ca_certificate, update_leaf_certificate and       *)
(* generate_certificate_signing_request                                    *)

\* conversions::ca_certificate_type_to_string(certificate_type) + "_ROOT_"
ca_root_prefix(certificate_type) ==
    CASE certificate_type = "V2G" -> PFX_V2G_ROOT
      [] certificate_type = "MO" -> PFX_MO_ROOT
      [] certificate_type = "CSMS" -> PFX_CSMS_ROOT
      [] OTHER -> PFX_MF_ROOT

\* conversions::leaf_certificate_type_to_filename
leaf_certificate_type_to_filename(certificate_type) ==
    IF certificate_type = "CSMS" THEN PFX_CSMS_LEAF ELSE PFX_SECC_LEAF

leaf_chain_prefix(certificate_type) ==
    IF certificate_type = "CSMS" THEN PFX_CPO_CSMS_CHAIN ELSE PFX_CPO_SECC_CHAIN

\* filesystem_utils::create_file_if_nonexistent
create_file_if_nonexistent(fs, p) ==
    IF exists(fs, p) THEN fs ELSE [q \in DOMAIN fs \cup {p} |-> IF q = p THEN PemFile(<<>>) ELSE fs[q]]

\* EvseSecurity::install_ca_certificate; certificate is the parsed input
\* string, rand the random file name, io the outcome of the writes
install_ca_certificate(c, fs, t, certificate, certificate_type, rand, io) ==
    LET ca_bundle_path == c.ca_bundle_path_map[certificate_type]
        exported(e) == [fs |-> e.fs, result |-> IF e.ok THEN "Accepted" ELSE "WriteError"]
        updated(fs1, u) == IF ~u.ok THEN [fs |-> fs1, result |-> "WriteError"]
                           ELSE exported(export_certificates(fs1, Directories, u.bundle, io))
        loaded(fs1, existing_certs) ==
            IF existing_certs = LoadError THEN [fs |-> fs1, result |-> "InvalidFormat"]
            ELSE IF ~contains_certificate(existing_certs, certificate[1])
            THEN exported(export_certificates(
                     fs1, Directories,
                     add_certificate(existing_certs, certificate[1],
                                     FilePath(ca_bundle_path, ca_root_prefix(certificate_type), rand, EXT_PEM)),
                     io))
            ELSE updated(fs1, update_certificate(existing_certs, certificate[1]))
        created(fs1) == loaded(fs1, BundleOfPath(fs1, Directories, ca_bundle_path))
    IN IF is_filesystem_full(c, fs) THEN [fs |-> fs, result |-> "CertificateStoreMaxLengthExceeded"]
       ELSE IF Len(certificate) # 1 THEN [fs |-> fs, result |-> "InvalidFormat"]
       ELSE IF ~is_valid(certificate[1], t) THEN [fs |-> fs, result |-> "Expired"]
       ELSE created(IF ca_bundle_path \in Directories THEN fs
                    ELSE create_file_if_nonexistent(fs, ca_bundle_path))

\* an update that accepts whatever it is given and writes nothing
update_leaf_certificate_accepting(c, fs, csr, t, certificate_chain, certificate_type, rand, io_leaf, io_chain) ==
    [fs |-> fs, managed_csr |-> csr, result |-> "Accepted"]

\* EvseSecurity::update_leaf_certificate; io_leaf and io_chain are the outcomes
\* of the two writes
update_leaf_certificate(c, fs, csr, t, certificate_chain, certificate_type, rand, io_leaf, io_chain) ==
    LET same(result) == [fs |-> fs, managed_csr |-> csr, result |-> result]
        cert_path == IF certificate_type = "CSMS" THEN c.csms_leaf_cert_directory
                     ELSE c.secc_leaf_cert_directory
        key_path == IF certificate_type = "CSMS" THEN c.csms_leaf_key_directory
                    ELSE c.secc_leaf_key_directory
        chain_written(csr1, w2) ==
            [fs |-> w2.fs, managed_csr |-> csr1, result |-> IF w2.ok THEN "Accepted" ELSE "WriteError"]
        leaf_written(csr1, w1) ==
            IF ~w1.ok THEN same("WriteError")
            ELSE IF Len(certificate_chain) > 1
            THEN chain_written(csr1, write_to_file(w1.fs,
                                                   FilePath(cert_path, leaf_chain_prefix(certificate_type),
                                                            rand, EXT_PEM),
                                                   PemFile(certificate_chain), io_chain))
            ELSE [fs |-> w1.fs, managed_csr |-> csr1, result |-> "Accepted"]
        keyed(private_key_path_opt) ==
            IF private_key_path_opt = None THEN same("WriteError")
            ELSE leaf_written(Restrict(csr, DOMAIN csr \ {private_key_path_opt[1]}),
                              write_to_file(fs,
                                            FilePath(cert_path,
                                                     leaf_certificate_type_to_filename(certificate_type),
                                                     rand, EXT_PEM),
                                            PemFile(<<certificate_chain[1]>>), io_leaf))
        verified(result) ==
            IF result # "Valid" THEN same(to_install_certificate_result(result))
            ELSE keyed(get_private_key_path_of_certificate(fs, certificate_chain[1], None, key_path))
    IN IF is_filesystem_full(c, fs) THEN same("CertificateStoreMaxLengthExceeded")
       ELSE IF certificate_type \notin {"CSMS", "V2G"} THEN same("WriteError")
       ELSE IF certificate_chain = <<>> THEN same("InvalidFormat")
       ELSE verified(verify_certificate_internal(c, fs, t, certificate_chain, {certificate_type}))

\* CryptoSupplier::x509_generate_csr: on success the new key is in the key file
x509_generate_csr(fs, private_key_file, key, csr_result) ==
    IF csr_result = "Valid"
    THEN [q \in DOMAIN fs \cup {private_key_file} |-> IF q = private_key_file THEN KeyFile(key) ELSE fs[q]]
    ELSE fs

\* a request that creates its key file and leaves the table of pending requests alone
generate_certificate_signing_request_untracked(c, fs, csr, t, certificate_type, use_custom_provider, rand, key, csr_result) ==
    [fs |-> x509_generate_csr(fs, FilePath(c.secc_leaf_key_directory,
                                           leaf_certificate_type_to_filename(certificate_type), rand, EXT_KEY),
                              key, "Valid"),
     managed_csr |-> csr, status |-> "Accepted",
     key_path |-> Some(FilePath(c.secc_leaf_key_directory,
                                leaf_certificate_type_to_filename(certificate_type), rand, EXT_KEY))]

\* EvseSecurity::generate_certificate_signing_request with
\* generate_certificate_signing_request_internal; key is the generated key
generate_certificate_signing_request(c, fs, csr, t, certificate_type, use_custom_provider, rand, key, csr_result) ==
    LET ext == IF use_custom_provider THEN EXT_TKEY ELSE EXT_KEY
        dir == IF certificate_type = "CSMS" THEN c.csms_leaf_key_directory ELSE c.secc_leaf_key_directory
        key_path == FilePath(dir, leaf_certificate_type_to_filename(certificate_type), rand, ext)
    IN IF certificate_type \notin {"CSMS", "V2G"}
       THEN [fs |-> fs, managed_csr |-> csr, status |-> "InvalidRequestedType", key_path |-> None]
       ELSE IF csr_result = "Valid"
       THEN [fs |-> x509_generate_csr(fs, key_path, key, csr_result),
             managed_csr |-> IF key_path \in DOMAIN csr THEN csr
                             ELSE [q \in DOMAIN csr \cup {key_path} |-> IF q = key_path THEN t ELSE csr[q]],
             status |-> "Accepted", key_path |-> Some(key_path)]
       ELSE [fs |-> fs, managed_csr |-> csr,
             status |-> IF csr_result = "KeyGenerationError" THEN "KeyGenError" ELSE "GenerationError",
             key_path |-> None]

----------------------------------------------------------------------------
(* EvseSecurity::garbage_collect *)

\* the chain files of a bundle that hold at least one certificate
NonEmptyChains(b) == {p \in DOMAIN b.certificates : b.certificates[p] # <<>>}

\* for_each_chain_ordered with the comparator of garbage_collect: the sets of
\* chain files that can come first, newest first, up to the minimum of entries;
\* chains of equal expiry come in an order the sort does not fix
KeepChoices(b) ==
    LET chains == NonEmptyChains(b)
        na(p) == b.certificates[p][1].not_after
        newer(v) == {p \in chains : na(p) > v}
        v == CHOOSE x \in {na(p) : p \in chains} :
                 /\ Cardinality(newer(x)) < DEFAULT_MINIMUM_CERTIFICATE_ENTRIES
                 /\ Cardinality({p \in chains : na(p) >= x}) >= DEFAULT_MINIMUM_CERTIFICATE_ENTRIES
    IN IF Cardinality(chains) <= DEFAULT_MINIMUM_CERTIFICATE_ENTRIES THEN {chains}
       ELSE {newer(v) \cup S : S \in {T \in SUBSET {p \in chains : na(p) = v} :
                 Cardinality(T) = DEFAULT_MINIMUM_CERTIFICATE_ENTRIES - Cardinality(newer(v))}}

\* a visit that counts no chain as skipped: every expired chain goes
gc_expired_chains_uncounted(expired_certs, keep, t) ==
    {p \in NonEmptyChains(expired_certs) : is_expired(expired_certs.certificates[p][1], t)}

\* the chains visited once ++skipped > DEFAULT_MINIMUM_CERTIFICATE_ENTRIES
\* whose first certificate is expired
gc_expired_chains(expired_certs, keep, t) ==
    {p \in NonEmptyChains(expired_certs) \ keep : is_expired(expired_certs.certificates[p][1], t)}

\* the first loop of garbage_collect for one leaf directory; keep holds the
\* chains visited while skipped <= DEFAULT_MINIMUM_CERTIFICATE_ENTRIES
gc_mark_directory(c, fs, t, st, cert_dir, key_dir, ca_type, keep) ==
    LET key_file(chain, p) == get_private_key_path_of_certificate(fs, chain[1], Some(p), key_dir)
        hierarchy(root_bundle, chain) == build_hierarchy2(split(root_bundle), chain)
        ocsp_files(ocsp_hash, data) ==
            IF ocsp_hash = NoHash \/ data = None THEN {} ELSE {data[1][1], data[1][2]}
        ocsp(p, ocsp_hash) == ocsp_files(ocsp_hash, get_oscp_data_of_certificate(fs, Some(p), ocsp_hash))
        marked(root_bundle, chains, empty, dropped, protected) ==
            [invalid_certificate_files |->
                 st.invalid_certificate_files \cup empty \cup dropped
                 \cup UNION {Range(key_file(chains[p], p))
                             \cup ocsp(p, get_certificate_hash(hierarchy(root_bundle, chains[p]), chains[p][1])) :
                             p \in dropped},
             protected_private_keys |-> st.protected_private_keys \cup protected,
             managed_csr |-> Restrict(st.managed_csr, DOMAIN st.managed_csr \ protected),
             thrown |-> \E p \in dropped : hierarchy(root_bundle, chains[p]).error]
        loaded(root_bundle, expired_certs) ==
            IF root_bundle = LoadError \/ expired_certs = LoadError THEN st
            ELSE IF get_certificate_chains_count(expired_certs) <= DEFAULT_MINIMUM_CERTIFICATE_ENTRIES THEN st
            ELSE marked(root_bundle, expired_certs.certificates,
                        DOMAIN expired_certs.certificates \ NonEmptyChains(expired_certs),
                        gc_expired_chains(expired_certs, keep, t),
                        UNION {Range(key_file(expired_certs.certificates[p], p)) : p \in keep})
    IN loaded(BundleOfPath(fs, Directories, c.ca_bundle_path_map[ca_type]),
              BundleOfPath(fs, Directories, cert_dir))

\* the second loop: keys without a certificate enter managed_csr
gc_collect_keys(fs, csr, t, protected_private_keys, keys_dir) ==
    LET dangling == {k \in FilesUnder(fs, keys_dir) \ protected_private_keys :
                        is_keyfile(fs, k) /\ get_certificate_path_of_key(fs, k, keys_dir) = {}}
    IN [k \in DOMAIN csr \cup dangling |-> IF k \in DOMAIN csr THEN csr[k] ELSE t]

\* a sweep that takes every entry, whatever its age
gc_expired_csr_all(c, csr, t) == DOMAIN csr

\* a sweep that takes no entry
gc_expired_csr_none(c, csr, t) == {}

\* the sweep of managed_csr: entries older than csr_expiry go with their key file
gc_expired_csr(c, csr, t) == {k \in DOMAIN csr : t - csr[k] > c.csr_expiry}

\* the last loop: OCSP data whose hash is in no hierarchy, for one leaf directory
gc_invalid_ocsp(c, fs, leaf_certificate_path) ==
    LET load == IF leaf_certificate_path = c.secc_leaf_cert_directory THEN "V2G" ELSE "CSMS"
        ocsp_of(b) == IF b.source = "FILE" THEN Append(parent_path(b.path), OCSP_DIR)
                      ELSE Append(b.path, OCSP_DIR)
        invalid(hierarchy, stale) ==
            [files |-> stale \cup {replace_extension(e, EXT_DER) : e \in stale}, thrown |-> hierarchy.error]
        scanned(hierarchy, entries) ==
            invalid(hierarchy, {e \in entries : /\ fs[e].kind = "hash"
                                                /\ ~contains_certificate_hash(hierarchy, fs[e].hash)})
        loaded(root_bundle, leaf_bundle) ==
            IF root_bundle = LoadError \/ leaf_bundle = LoadError THEN [files |-> {}, thrown |-> FALSE]
            ELSE scanned(build_hierarchy2(split(root_bundle), split(leaf_bundle)),
                         FilesIn(fs, ocsp_of(leaf_bundle)) \cup FilesIn(fs, ocsp_of(root_bundle)))
    IN loaded(BundleOfPath(fs, Directories, c.ca_bundle_path_map[load]),
              BundleOfPath(fs, Directories, leaf_certificate_path))

\* EvseSecurity::garbage_collect: the files and managed_csr after one pass;
\* keep gives, per leaf type, the chains the ordered visit protects
garbage_collect(c, fs, csr, t, keep) ==
    LET cleaned(fs2, csr3, o1, o2) ==
            IF o1.thrown \/ o2.thrown THEN [fs |-> fs2, managed_csr |-> csr3]
            ELSE [fs |-> DeleteAll(fs2, o1.files \cup o2.files), managed_csr |-> csr3]
        swept(fs1, csr2, expired) ==
            cleaned(DeleteAll(fs1, expired), Restrict(csr2, DOMAIN csr2 \ expired),
                    gc_invalid_ocsp(c, DeleteAll(fs1, expired), c.secc_leaf_cert_directory),
                    gc_invalid_ocsp(c, DeleteAll(fs1, expired), c.csms_leaf_cert_directory))
        collected(fs1, csr2) == swept(fs1, csr2, gc_expired_csr(c, csr2, t))
        deleted(st, fs1) ==
            collected(fs1, gc_collect_keys(fs1,
                                           gc_collect_keys(fs1, st.managed_csr, t, st.protected_private_keys,
                                                           c.csms_leaf_key_directory),
                                           t, st.protected_private_keys, c.secc_leaf_key_directory))
        marked(st) == IF st.thrown THEN [fs |-> fs, managed_csr |-> st.managed_csr]
                      ELSE deleted(st, DeleteAll(fs, st.invalid_certificate_files))
        first(st) == marked(IF st.thrown THEN st
                            ELSE gc_mark_directory(c, fs, t, st, c.secc_leaf_cert_directory,
                                                   c.secc_leaf_key_directory, "V2G", keep.V2G))
    IN IF ~is_filesystem_full(c, fs) THEN [fs |-> fs, managed_csr |-> csr]
       ELSE first(gc_mark_directory(c, fs, t,
                                    [invalid_certificate_files |-> {}, protected_private_keys |-> {},
                                     managed_csr |-> csr, thrown |-> FALSE],
                                    c.csms_leaf_cert_directory, c.csms_leaf_key_directory, "CSMS", keep.CSMS))

----------------------------------------------------------------------------
(* EvseSecurity::update_ocsp_cache and retrieve_ocsp_cache *)

\* an X509Wrapper that knows the file it was loaded from
with_file(c, file) == [f \in DOMAIN c \cup {"file"} |-> IF f = "file" THEN file ELSE c[f]]

\* X509CertificateBundle::split: the certificates of every chain file in the
\* order of the map, each with its file
split_files(b) ==
    LET ps == chain_paths(b)
    IN Flatten([i \in 1..Len(ps) |->
                   [k \in 1..Len(b.certificates[ps[i]]) |-> with_file(b.certificates[ps[i]][k], ps[i])]])

\* build_hierarchy(ca_bundle.split(), leaf_bundle.split()) over the V2G bundle
\* and a leaf directory; LoadError stands for the CertificateLoadException
ocsp_hierarchy(c, fs, leaf_path) ==
    LET built(ca, leaf) == IF ca = LoadError \/ leaf = LoadError THEN LoadError
                           ELSE build_hierarchy2(split_files(ca), split_files(leaf))
    IN built(BundleOfPath(fs, Directories, c.ca_bundle_path_map["V2G"]),
             BundleOfPath(fs, Directories, leaf_path))

\* get_random_file_name: a name that no file of the folder has, from rand on
ocsp_file_name(fs, ocsp_path, rand) ==
    CHOOSE r \in rand..(RandCount - 1) :
        /\ \A e \in {EXT_DER, EXT_HASH} : ~exists(fs, FilePath(ocsp_path, PFX_OCSP, r, e))
        /\ \A q \in rand..(r - 1) : \E e \in {EXT_DER, EXT_HASH} : exists(fs, FilePath(ocsp_path, PFX_OCSP, q, e))

\* the body of the loop of update_ocsp_cache for one certificate found:
\* the data of an existing pair is overwritten, else a new pair is written
ocsp_write(fs, file, hash, ocsp_response, rand, io_data, io_hash) ==
    LET ocsp_path == Append(parent_path(file), OCSP_DIR)
        created(name) ==
            write_to_file(write_to_file(fs, FilePath(ocsp_path, PFX_OCSP, name, EXT_DER),
                                        OcspFile(ocsp_response), io_data).fs,
                          FilePath(ocsp_path, PFX_OCSP, name, EXT_HASH), HashFile(hash), io_hash).fs
        written(found) ==
            IF found # None THEN write_to_file(fs, found[1][2], OcspFile(ocsp_response), io_data).fs
            ELSE created(ocsp_file_name(fs, ocsp_path, rand))
    IN written(get_oscp_data_of_certificate(fs, Some(file), hash))

RECURSIVE ocsp_write_all(_, _, _, _, _, _, _)
ocsp_write_all(fs, certs, hash, ocsp_response, rand, io_data, io_hash) ==
    IF certs = <<>> THEN fs
    ELSE ocsp_write_all(ocsp_write(fs, Head(certs).certificate.file, hash, ocsp_response, rand, io_data, io_hash),
                        Tail(certs), hash, ocsp_response, rand, io_data, io_hash)

\* EvseSecurity::update_ocsp_cache: the files after the call; the leaves are
\* those of secc_leaf_cert_directory
update_ocsp_cache(c, fs, certificate_hash_data, ocsp_response, rand, io_data, io_hash) ==
    LET updated_files(h) ==
            IF h = LoadError THEN fs
            ELSE IF h.error THEN fs
            ELSE ocsp_write_all(fs, find_certificates_multi(h, certificate_hash_data), certificate_hash_data,
                                ocsp_response, rand, io_data, io_hash)
    IN updated_files(ocsp_hierarchy(c, fs, c.secc_leaf_cert_directory))

\* EvseSecurity::retrieve_ocsp_cache_internal: the path of the data, or None;
\* the leaves are those of secc_leaf_key_directory
retrieve_ocsp_cache_internal(c, fs, certificate_hash_data) ==
    LET data(found) == IF found = None THEN None ELSE Some(found[1][2])
        of_certificate(cert) ==
            IF cert = <<>> THEN None
            ELSE data(get_oscp_data_of_certificate(fs, Some(cert[1].file), certificate_hash_data))
        retrieved(h) == IF h = LoadError THEN None
                        ELSE IF h.error THEN None
                        ELSE of_certificate(find_certificate(h, certificate_hash_data))
    IN retrieved(ocsp_hierarchy(c, fs, c.secc_leaf_key_directory))

----------------------------------------------------------------------------
(* EvseSecurity::update_certificate_links *)

fs_is_symlink(fs, p) == p \in DOMAIN fs /\ fs[p].kind = "link"

\* fs::exists follows a symbolic link to its target
fs_exists(fs, p) == p \in DOMAIN fs /\ (fs[p].kind = "link" => fs[p].target \in DOMAIN fs)

\* one "create or update" block: a link that holds another path is removed,
\* and the link is created where fs::exists finds nothing
update_link(st, link_path, target) ==
    LET created(s) == IF fs_exists(s.fs, link_path[1]) THEN s
                      ELSE [fs |-> write_to_file(s.fs, link_path[1], LinkFile(target[1]), TRUE).fs,
                            changed |-> TRUE]
    IN IF link_path = None \/ target = None THEN st
       ELSE created(IF fs_is_symlink(st.fs, link_path[1]) /\ st.fs[link_path[1]].target # target[1]
                    THEN [fs |-> delete_file(st.fs, link_path[1]).fs, changed |-> TRUE]
                    ELSE st)

\* the else branch: a configured link that is a symbolic link is removed
remove_link(st, link_path) ==
    IF link_path # None /\ fs_is_symlink(st.fs, link_path[1])
    THEN [fs |-> delete_file(st.fs, link_path[1]).fs, changed |-> TRUE]
    ELSE st

\* EvseSecurity::update_certificate_links(V2G) for the CertificateInfo
\* key_pair that get_leaf_certificate_info_internal returned
update_certificate_links(fs, links, key_pair) ==
    IF key_pair.status = "Accepted"
    THEN update_link(update_link(update_link([fs |-> fs, changed |-> FALSE],
                                             links.secc_leaf_cert_link, key_pair.certificate_single),
                                 links.secc_leaf_key_link, key_pair.key),
                     links.cpo_cert_chain_link, key_pair.certificate)
    ELSE remove_link(remove_link(remove_link([fs |-> fs, changed |-> FALSE], links.secc_leaf_cert_link),
                                 links.secc_leaf_key_link),
                     links.cpo_cert_chain_link)

----------------------------------------------------------------------------
(* The X509CertificateBundle object: its certificates are X509Wrappers,    *)
(* which carry the file they were read from or were given by set_file, and *)
(* it keeps the hierarchy it built last with the flag hierarchy_invalidated *)

\* an X509Wrapper: the certificate and its optional file
Wrapped(c, file) == [certificate |-> c, file |-> file]

\* X509CertificateBundle(const fs::path&): every certificate is emplaced with
\* the path of the file it was read from
X509CertificateBundle(fs, dirs, path) ==
    LET object(b) ==
            IF b = LoadError THEN LoadError
            ELSE [source |-> b.source, path |-> b.path,
                  certificates |-> [p \in DOMAIN b.certificates |->
                                       [k \in 1..Len(b.certificates[p]) |->
                                           Wrapped(b.certificates[p][k], Some(p))]],
                  hierarchy |-> EmptyHierarchy, hierarchy_invalidated |-> TRUE]
    IN object(BundleOfPath(fs, dirs, path))

\* the certificates of the object without their files
unwrapped(o) ==
    [source |-> o.source, path |-> o.path,
     certificates |-> [p \in DOMAIN o.certificates |->
                          [k \in 1..Len(o.certificates[p]) |-> o.certificates[p][k].certificate]]]

invalidate_hierarchy(o) == [o EXCEPT !.hierarchy_invalidated = TRUE]

\* get_certficate_hierarchy: rebuilt from split() when the flag is set
bundle_get_certficate_hierarchy(o) ==
    IF o.hierarchy_invalidated
    THEN [o EXCEPT !.hierarchy_invalidated = FALSE, !.hierarchy = build_hierarchy(split(unwrapped(o)))]
    ELSE o

\* EvseUtils::is_subdirectory
is_subdirectory(base, subdir) == IsPrefix(base, subdir) /\ subdir # base

\* add_certificate(X509Wrapper&&): in a directory bundle under the file of the
\* wrapper, which must lie below the directory (InvalidOperationException
\* otherwise); in a file bundle at the end of the first list, as it is
bundle_add_certificate(o, w) ==
    IF o.source = "DIRECTORY"
    THEN LET certif_path == IF w.file = None THEN <<>> ELSE w.file[1]
         IN IF is_subdirectory(o.path, certif_path)
            THEN [bundle |-> invalidate_hierarchy(
                                [o EXCEPT !.certificates =
                                    [p \in DOMAIN o.certificates \cup {certif_path} |->
                                        IF p \notin DOMAIN o.certificates THEN <<w>>
                                        ELSE IF p = certif_path THEN Append(o.certificates[p], w)
                                        ELSE o.certificates[p]]]),
                  thrown |-> FALSE]
            ELSE [bundle |-> o, thrown |-> TRUE]
    ELSE [bundle |-> invalidate_hierarchy([o EXCEPT !.certificates[chain_paths(o)[1]] = Append(@, w)]),
          thrown |-> FALSE]

\* add_certificate_unique
bundle_add_certificate_unique(o, w) ==
    IF ~contains_certificate(unwrapped(o), w.certificate) THEN bundle_add_certificate(o, w)
    ELSE [bundle |-> o, thrown |-> FALSE]

\* update_certificate: the first wrapper of an equal certificate is assigned
\* the one given
bundle_update_certificate(o, w) ==
    LET ps == chain_paths(o)
        hits == {<<i, k>> \in (1..Len(ps)) \X (1..MaxCerts + MaxHeld + 1) :
                    /\ k <= Len(o.certificates[ps[i]])
                    /\ o.certificates[ps[i]][k].certificate = w.certificate}
        first == CHOOSE h \in hits : \A g \in hits : h[1] < g[1] \/ (h[1] = g[1] /\ h[2] <= g[2])
    IN IF hits = {} THEN [bundle |-> o, ok |-> FALSE]
       ELSE [bundle |-> invalidate_hierarchy([o EXCEPT !.certificates[ps[first[1]]][first[2]] = w]),
             ok |-> TRUE]

\* delete_certificate(const X509Wrapper&, include_issued): the hierarchy is
\* asked for the descendants first; the flag is set when anything was deleted
bundle_delete_wrapped(o, c, include_issued) ==
    LET asked == IF include_issued THEN bundle_get_certficate_hierarchy(o) ELSE o
        to_delete == (IF include_issued THEN Range(collect_descendants(asked.hierarchy, c)) ELSE {}) \cup {c}
        kept == [p \in DOMAIN o.certificates |->
                    SelectIdx(o.certificates[p], LAMBDA x : x.certificate \notin to_delete)]
    IN IF kept = o.certificates THEN asked
       ELSE invalidate_hierarchy([asked EXCEPT !.certificates = kept])

\* delete_certificate(const CertificateHashData&, include_issued): the
\* certificate is looked up in the hierarchy of the bundle
bundle_delete_hashed(o, hash, include_issued) ==
    LET asked == bundle_get_certficate_hierarchy(o)
        to_delete == find_certificate(asked.hierarchy, hash)
    IN IF to_delete = <<>> THEN asked ELSE bundle_delete_wrapped(asked, to_delete[1], include_issued)

\* delete_all_certificates: certificates.clear()
bundle_delete_all_certificates(o) == [o EXCEPT !.certificates = Restrict(@, {})]

\* export_certificates: the files as export_certificates leaves them, and the
\* object, from which sync_to_certificate_store of a directory erases the
\* empty lists
bundle_export_certificates(fs, dirs, o, io) ==
    LET e == export_certificates(fs, dirs, unwrapped(o), io)
        mine == {p \in DOMAIN o.certificates : o.certificates[p] # <<>>}
    IN [fs |-> e.fs, ok |-> e.ok,
        bundle |-> IF o.source = "DIRECTORY" THEN [o EXCEPT !.certificates = Restrict(@, mine)] ELSE o]

----------------------------------------------------------------------------
(* EvseSecurity::get_installed_certificates for the root certificate types *)

\* the hashes that for_each_descendant collects below a node
child_certificate_hash_data(h, root) ==
    LET d == for_each_descendant(h, root)
    IN SelectIdx([k \in 1..Len(d) |-> h.node[d[k]].hash], LAMBDA x : x # NoHash)

\* an entry for every top-level certificate, self-signed or not
root_chains_all(h, certificate_type) ==
    [k \in 1..Len(h.top) |->
        [certificate_type |-> certificate_type, certificate_hash_data |-> h.node[h.top[k]].hash,
         child_certificate_hash_data |-> child_certificate_hash_data(h, h.top[k])]]

\* the CertificateHashDataChain of every self-signed top-level certificate of
\* a hierarchy, in the order of get_hierarchy
root_chains(h, certificate_type) ==
    LET roots == SelectIdx(h.top, LAMBDA i : h.node[i].is_selfsigned)
    IN [k \in 1..Len(roots) |->
           [certificate_type |-> certificate_type, certificate_hash_data |-> h.node[roots[k]].hash,
            child_certificate_hash_data |-> child_certificate_hash_data(h, roots[k])]]

\* get_installed_certificates for one root certificate type: the chains of
\* its CA bundle; none when the bundle cannot be loaded
get_installed_root_certificates(c, fs, certificate_type) ==
    LET chains(b) == IF b = LoadError THEN <<>>
                     ELSE root_chains(get_certificate_hierarchy(b), certificate_type)
    IN chains(BundleOfPath(fs, Directories, c.ca_bundle_path_map[certificate_type]))

----------------------------------------------------------------------------
(* EvseSecurity::get_installed_certificates for V2GCertificateChain *)

\* the second loop of get_full_leaf_certificate_info_internal for one valid
\* leaf: the chain file and the single file found by for_each_chain
RECURSIVE find_leaf_files(_, _, _, _)
find_leaf_files(leaf_directory, certificate, paths, found) ==
    IF paths = <<>> \/ (found.chain_file # None /\ found.certificate_file # None) THEN found
    ELSE LET chain == leaf_directory.certificates[Head(paths)]
             leaf_found == certificate \in Range(chain)
             next == IF leaf_found /\ Len(chain) > 1 THEN [found EXCEPT !.chain_file = Some(Head(paths))]
                     ELSE IF leaf_found /\ Len(chain) = 1
                     THEN [found EXCEPT !.certificate_file = Some(Head(paths))]
                     ELSE found
         IN find_leaf_files(leaf_directory, certificate, Tail(paths), next)

\* no usable leaf: the status alone
NoInfo(status) == [status |-> status, leaf |-> None, key |-> None, certificate |-> None,
                   certificate_single |-> None]

\* a selection that takes the valid leaf with a key that expires first
newest_leaf_chains_oldest(b, keyed) ==
    {q \in keyed : \A r \in keyed : b.certificates[q][1].not_after <= b.certificates[r][1].not_after}

\* for_each_chain_ordered with the comparator "greater valid_to first", left
\* at the first valid leaf that has a key: the chains that can be that one
newest_leaf_chains(b, keyed) ==
    {q \in keyed : \A r \in keyed : b.certificates[q][1].not_after >= b.certificates[r][1].not_after}

\* a bundle that is never found empty
bundle_empty_never(b) == FALSE

\* X509CertificateBundle::empty: the bundle holds no certificate
bundle_empty(b) == split(b) = <<>>

\* get_leaf_certificate_info_internal: get_full_leaf_certificate_info_internal
\* without include_all_valid and include_future_valid, first entry of the
\* result; the set of the results the order of equal chains allows
get_leaf_certificate_info_internal(c, fs, t, certificate_type) ==
    LET key_dir == IF certificate_type = "CSMS" THEN c.csms_leaf_key_directory ELSE c.secc_leaf_key_directory
        cert_dir == IF certificate_type = "CSMS" THEN c.csms_leaf_cert_directory
                    ELSE c.secc_leaf_cert_directory
        found(f, certificate, key) ==
            [status |-> "Accepted", leaf |-> Some(certificate), key |-> key,
             certificate |-> f.chain_file, certificate_single |-> f.certificate_file]
        info(b, q) ==
            found(find_leaf_files(b, b.certificates[q][1], chain_paths(b),
                                  [chain_file |-> None, certificate_file |-> None]),
                  b.certificates[q][1],
                  get_private_key_path_of_certificate(fs, b.certificates[q][1], Some(q), key_dir))
        keyed(b, valid) ==
            {q \in valid : get_private_key_path_of_certificate(fs, b.certificates[q][1], Some(q), key_dir) # None}
        chosen(b, valid, with_key) ==
            IF valid = {} THEN {NoInfo("NotFoundValid")}
            ELSE IF with_key = {} THEN {NoInfo("PrivateKeyNotFound")}
            ELSE {info(b, q) : q \in newest_leaf_chains(b, with_key)}
        valid_chains(b, valid) == chosen(b, valid, keyed(b, valid))
        loaded(b) ==
            IF b = LoadError THEN {NoInfo("NotFound")}
            ELSE IF bundle_empty(b) THEN {NoInfo("NotFound")}
            ELSE valid_chains(b, {q \in NonEmptyChains(b) : is_valid(b.certificates[q][1], t)})
    IN IF certificate_type \notin {"CSMS", "V2G"} THEN {NoInfo("Rejected")}
       ELSE loaded(BundleOfPath(fs, Directories, cert_dir))

\* get_full_leaf_certificate_info_internal with include_all_valid and
\* remove_duplicates: the CertificateInfo of every valid leaf that has a key
get_full_leaf_certificate_info_internal(c, fs, t, certificate_type) ==
    LET key_dir == IF certificate_type = "CSMS" THEN c.csms_leaf_key_directory ELSE c.secc_leaf_key_directory
        cert_dir == IF certificate_type = "CSMS" THEN c.csms_leaf_cert_directory
                    ELSE c.secc_leaf_cert_directory
        leaf_certificates == BundleOfPath(fs, Directories, cert_dir)
        valid_leafs == {leaf_certificates.certificates[p][1] : p \in
                           {q \in NonEmptyChains(leaf_certificates) :
                               /\ is_valid(leaf_certificates.certificates[q][1], t)
                               /\ get_private_key_path_of_certificate(
                                      fs, leaf_certificates.certificates[q][1], Some(q), key_dir) # None}}
        info(certificate) == find_leaf_files(leaf_certificates, certificate, chain_paths(leaf_certificates),
                                             [chain_file |-> None, certificate_file |-> None])
    IN {info(certificate) : certificate \in valid_leafs}

\* add_certificate_unique over the certificates of the leaf file
RECURSIVE add_certificates_unique(_, _)
add_certificates_unique(b, certs) ==
    IF certs = <<>> THEN b
    ELSE add_certificates_unique(
             IF contains_certificate(b, Head(certs)) THEN b ELSE add_certificate(b, Head(certs), b.path),
             Tail(certs))

\* the CertificateHashDataChain entries reported for V2GCertificateChain:
\* leaf hash first, then the hashes above it
get_installed_certificates(c, fs, t) ==
    LET pairs == get_full_leaf_certificate_info_internal(c, fs, t, "V2G")
        certificate_path(i) == IF i.chain_file # None THEN i.chain_file[1] ELSE i.certificate_file[1]
        ca_bundle == BundleOfPath(fs, Directories, c.ca_bundle_path_map["V2G"])
        merged(i) == add_certificates_unique(ca_bundle,
                                             split(BundleOfPath(fs, Directories, certificate_path(i))))
        hashes(h, root) == LET d == for_each_descendant(h, root)
                           IN SelectIdx([k \in 1..Len(d) |-> h.node[d[k]].hash], LAMBDA x : x # NoHash)
        chains(i) == LET h == get_certificate_hierarchy(merged(i))
                     IN {Reverse(hashes(h, h.top[k])) : k \in 1..Len(h.top)} \ {<<>>}
    IN IF ca_bundle = LoadError THEN {}
       ELSE UNION {chains(i) : i \in {j \in pairs : j.chain_file # None \/ j.certificate_file # None}}

----------------------------------------------------------------------------
(* The stores the model starts from, each one reachable from an empty store *)
(* by generate_certificate_signing_request, install_ca_certificate,         *)
(* update_leaf_certificate and update_ocsp_cache                            *)

EmptyMap == [x \in {} |-> 0]

MakeFs(S) == [p \in {e[1] : e \in S} |-> (CHOOSE e \in S : e[1] = p)[2]]

LEAF_SECC == Leaf(SUB_CA, 1, FarFuture)
LEAF_CSMS == Leaf(CSMS_ROOT, 2, FarFuture)
LEAF_BOTH == Leaf(V2G_ROOT, 1, FarFuture)

\* a V2G chain with its key and OCSP data in secc, a CSMS leaf with its key in csms
LeafFiles(secc, secc_key, csms, csms_key) ==
    {<<FilePath(secc, PFX_SECC_LEAF, 0, EXT_PEM), PemFile(<<LEAF_SECC>>)>>,
     <<FilePath(secc, PFX_CPO_SECC_CHAIN, 0, EXT_PEM), PemFile(<<LEAF_SECC, SUB_CA>>)>>,
     <<FilePath(secc_key, PFX_SECC_LEAF, 1, EXT_KEY), KeyFile(1)>>,
     <<FilePath(Append(secc, OCSP_DIR), PFX_OCSP, 0, EXT_HASH),
       HashFile(get_certificate_hash_data(LEAF_SECC, SUB_CA))>>,
     <<FilePath(Append(secc, OCSP_DIR), PFX_OCSP, 0, EXT_DER), OcspFile(0)>>,
     <<FilePath(csms, PFX_CSMS_LEAF, 0, EXT_PEM), PemFile(<<LEAF_CSMS>>)>>,
     <<FilePath(csms_key, PFX_CSMS_LEAF, 1, EXT_KEY), KeyFile(2)>>}

StoreSplit ==
    MakeFs({<<V2G_BUNDLE, PemFile(<<V2G_ROOT, SUB_CA>>)>>, <<CSMS_BUNDLE, PemFile(<<CSMS_ROOT>>)>>}
           \cup LeafFiles(D_CSO, D_CSO, D_CSMS, D_CSMS))

StoreShared ==
    MakeFs({<<V2G_BUNDLE, PemFile(<<V2G_ROOT, SUB_CA>>)>>, <<CSMS_BUNDLE, PemFile(<<CSMS_ROOT>>)>>}
           \cup LeafFiles(D_CLIENT, D_CLIENT, D_CLIENT, D_CLIENT))

\* one leaf installed for both roles, its key in the shared key directory
StoreKeys ==
    MakeFs({<<V2G_BUNDLE, PemFile(<<V2G_ROOT>>)>>,
            <<FilePath(D_CA_CSMS, PFX_CSMS_ROOT, 0, EXT_PEM), PemFile(<<V2G_ROOT>>)>>,
            <<FilePath(D_CSO, PFX_SECC_LEAF, 0, EXT_PEM), PemFile(<<LEAF_BOTH>>)>>,
            <<FilePath(D_CSMS, PFX_CSMS_LEAF, 0, EXT_PEM), PemFile(<<LEAF_BOTH>>)>>,
            <<FilePath(D_KEYS, PFX_SECC_LEAF, 1, EXT_KEY), KeyFile(1)>>})

\* a store fresh from the constructor
Scenarios ==
    {[cfg |-> Config(PathsSplit, 2, 3, 0), files |-> EmptyMap, keys |-> 0]}

DeleteScenarios ==
    {[cfg |-> Config(PathsSplit, 50, 10, 1), files |-> StoreSplit, keys |-> 2],
     [cfg |-> Config(PathsSplit, 3, 10, 1), files |-> StoreSplit, keys |-> 2],
     [cfg |-> Config(PathsShared, 50, 10, 1), files |-> StoreShared, keys |-> 2],
     [cfg |-> Config(PathsKeys, 50, 6, 1), files |-> StoreKeys, keys |-> 2]}

\* the leaf files SECC_LEAF_<4 + i>.pem of a directory, one per leaf
GcLeafFiles(dir, leaves) ==
    {<<FilePath(dir, PFX_SECC_LEAF, 4 + i, EXT_PEM), PemFile(<<leaves[i]>>)>> : i \in 1..Len(leaves)}

\* eleven renewals of one certificate, all of key 11: six expired, five valid
RenewedLeaves == [i \in 1..11 |-> Leaf(V2G_ROOT, 11, IF i <= 6 THEN i - 7 ELSE i - 6)]

\* one expired leaf and ten valid ones, of the keys 11 and 12
ValidLeaves ==
    [i \in 1..11 |-> IF i = 1 THEN Leaf(V2G_ROOT, 11, 0 - 1)
                     ELSE IF i = 11 THEN Leaf(V2G_ROOT, 12, 9)
                     ELSE Leaf(V2G_ROOT, 11, i - 1)]

StoreRenewed ==
    MakeFs({<<V2G_BUNDLE, PemFile(<<V2G_ROOT>>)>>, <<CSMS_BUNDLE, PemFile(<<CSMS_ROOT>>)>>,
            <<FilePath(D_CSO, PFX_SECC_LEAF, 4, EXT_KEY), KeyFile(11)>>}
           \cup GcLeafFiles(D_CSO, RenewedLeaves))

StoreValid ==
    MakeFs({<<V2G_BUNDLE, PemFile(<<V2G_ROOT>>)>>, <<CSMS_BUNDLE, PemFile(<<CSMS_ROOT>>)>>,
            <<FilePath(D_CSO, PFX_SECC_LEAF, 4, EXT_KEY), KeyFile(11)>>,
            <<FilePath(D_CSO, PFX_SECC_LEAF, 3, EXT_KEY), KeyFile(12)>>}
           \cup GcLeafFiles(D_CSO, ValidLeaves))

\* one valid leaf, its key in the key directory apart from the certificates
StoreApart ==
    MakeFs({<<V2G_BUNDLE, PemFile(<<V2G_ROOT>>)>>,
            <<FilePath(D_CA_CSMS, PFX_CSMS_ROOT, 5, EXT_PEM), PemFile(<<CSMS_ROOT>>)>>,
            <<FilePath(D_CSO, PFX_SECC_LEAF, 5, EXT_PEM), PemFile(<<Leaf(V2G_ROOT, 11, 9)>>)>>,
            <<FilePath(D_KEYS, PFX_SECC_LEAF, 4, EXT_KEY), KeyFile(11)>>})

\* ten valid leaves beside the V2G bundle file, whose root was deleted
StoreInner ==
    MakeFs({<<INNER_BUNDLE, PemFile(<<>>)>>, <<CSMS_BUNDLE, PemFile(<<CSMS_ROOT>>)>>,
            <<FilePath(D_CSO, PFX_SECC_LEAF, 4, EXT_KEY), KeyFile(11)>>,
            <<FilePath(D_CSO, PFX_SECC_LEAF, 3, EXT_KEY), KeyFile(12)>>}
           \cup GcLeafFiles(D_CSO, SubSeq(ValidLeaves, 2, 11)))

\* stores for garbage_collect: at its entry cap, over it, with the keys apart,
\* and with a CA bundle file inside a leaf directory
GcScenarios ==
    {[cfg |-> Config(PathsSplit, 50, 17, 2), files |-> StoreValid, keys |-> 0],
     [cfg |-> Config(PathsSplit, 50, 10, 2), files |-> StoreRenewed, keys |-> 0],
     [cfg |-> Config(PathsKeys, 50, 4, 0), files |-> StoreApart, keys |-> 0],
     [cfg |-> Config(PathsInner, 50, 10, 0), files |-> StoreInner, keys |-> 0]}

\* fresh stores, one with room for the bundle files only and one with room to spare
CsrScenarios ==
    {[cfg |-> Config(PathsSplit, 50, 3, 0), files |-> EmptyMap, keys |-> 0],
     [cfg |-> Config(PathsSplit, 50, 50, 0), files |-> EmptyMap, keys |-> 0]}

\* a leaf that is valid up to time 1, with its key, from an earlier run
OLD_LEAF == Leaf(V2G_ROOT, 11, 1)

\* both roots installed, the old leaf SECC_LEAF_4.pem and its key SECC_LEAF_4.key
StoreLeaf ==
    MakeFs({<<V2G_BUNDLE, PemFile(<<V2G_ROOT>>)>>, <<CSMS_BUNDLE, PemFile(<<CSMS_ROOT>>)>>,
            <<FilePath(D_CSO, PFX_SECC_LEAF, 4, EXT_PEM), PemFile(<<OLD_LEAF>>)>>,
            <<FilePath(D_CSO, PFX_SECC_LEAF, 4, EXT_KEY), KeyFile(11)>>})

\* stores for update_leaf_certificate: with room to spare, and full once a
\* key has been generated
LeafScenarios ==
    {[cfg |-> Config(PathsSplit, 50, 50, 1), files |-> StoreLeaf, keys |-> 0],
     [cfg |-> Config(PathsSplit, 50, 5, 1), files |-> StoreLeaf, keys |-> 0]}

\* a V2G bundle file that holds a sub-CA and not the root that issued it
StoreOrphan == MakeFs({<<V2G_BUNDLE, PemFile(<<SUB_CA>>)>>})

\* stores for install_ca_certificate: fresh with bundle files and room to
\* spare, the same with the sub-CA in the V2G bundle, fresh with a CSMS bundle
\* directory and room to spare, and with that directory and room for the two
\* bundle files only
InstallScenarios ==
    {[cfg |-> Config(PathsSplit, 50, 50, 0), files |-> EmptyMap, keys |-> 0],
     [cfg |-> Config(PathsSplit, 50, 50, 0), files |-> StoreOrphan, keys |-> 0],
     [cfg |-> Config(PathsKeys, 50, 50, 0), files |-> EmptyMap, keys |-> 0],
     [cfg |-> Config(PathsKeys, 50, 2, 0), files |-> EmptyMap, keys |-> 0]}

----------------------------------------------------------------------------
(* The inputs of the calls *)

Threads == {"app1", "app2", "timer"}
NoThread == "none"
Idle == "idle"

\* the queries that change nothing
InfoOps == {"get_leaf_certificate_info", "retrieve_ocsp_cache", "verify_certificate",
            "is_ca_certificate_installed"}

\* the operations of the OCSP cache and of the links that write
OcspOps == {"update_ocsp_cache", "update_certificate_links"}

AppOps == {"install_ca_certificate", "delete_certificate", "update_leaf_certificate",
           "generate_certificate_signing_request", "get_installed_certificates"}

\* a PEM string holds a sequence of certificates; <<>> is a string without any
CaInputs == {<<V2G_ROOT>>, <<EXPIRED_ROOT>>, <<>>}

\* PEM strings for install_ca_certificate: one certificate, none, and two
InstallInputs == {<<V2G_ROOT>>, <<SHORT_ROOT>>, <<EXPIRED_ROOT>>, <<>>, <<V2G_ROOT, CSMS_ROOT>>}

\* the hashes of the certificates a CA bundle can come to hold
InstallHashes == {get_certificate_hash_data_self(V2G_ROOT), get_certificate_hash_data_self(SHORT_ROOT)}

\* a leaf of the V2G root for the generated key 1 whose validity begins at time 1
FUTURE_LEAF == Cert(230, V2G_ROOT.subject, 1, V2G_ROOT.key, 30, 1, FarFuture)

\* PEM strings for update_leaf_certificate: a leaf of the V2G root for the
\* generated key 1, one whose validity ended before time 0, a chain of a leaf
\* and the sub-CA that issued it, no certificate, and a leaf not yet valid
LeafChains == {<<LEAF_BOTH>>, <<Leaf(V2G_ROOT, 1, 0 - 1)>>, <<LEAF_SECC, SUB_CA>>, <<>>, <<FUTURE_LEAF>>}

\* hashes for the OCSP cache: of the leaf of the installed chain, of the
\* sub-CA above it, of the leaf installed for both roles,
\* and one that no certificate has
OcspHashes == {get_certificate_hash_data(LEAF_SECC, SUB_CA), get_certificate_hash_data(SUB_CA, V2G_ROOT),
               get_certificate_hash_data(LEAF_BOTH, V2G_ROOT),
               [issuer_name_hash |-> 0, issuer_key_hash |-> 0, serial_number |-> 0]}

\* two OCSP responses
OcspResponses == {1, 2}

\* the files of the OCSP folders
ocsp_files(fs) == {p \in DOMAIN fs : fs[p].kind \in {"hash", "ocsp"}}

\* PEM strings for verify_certificate: no certificate, a leaf of the V2G root,
\* a leaf with the sub-CA that issued it, the same with the root, the same
\* with the leaf once more, and a leaf with a root that is not installed
VerifyChains == {<<>>, <<LEAF_BOTH>>, <<LEAF_SECC, SUB_CA>>, <<LEAF_SECC, SUB_CA, V2G_ROOT>>,
                 <<Leaf(OTHER_ROOT, 1, FarFuture), OTHER_ROOT>>}

\* the three links of the configuration, in a directory of their own
Links == [secc_leaf_cert_link |-> Some(<<2, 1>>), secc_leaf_key_link |-> Some(<<2, 2>>),
          cpo_cert_chain_link |-> Some(<<2, 3>>)]

\* a leaf of the sub-CA for the key 11 that is valid up to time 0
CHAIN_LEAF == Leaf(SUB_CA, 11, 0)

LeafInputs(keys) == {<<LEAF_SECC, SUB_CA>>, <<LEAF_CSMS>>, <<LEAF_BOTH>>, <<>>}
                    \cup {<<Leaf(V2G_ROOT, k, FarFuture)>> : k \in 3..keys}

HashInputs == {get_certificate_hash_data_self(V2G_ROOT), get_certificate_hash_data(SUB_CA, V2G_ROOT),
               get_certificate_hash_data(LEAF_SECC, SUB_CA), get_certificate_hash_data(LEAF_CSMS, CSMS_ROOT),
               get_certificate_hash_data(LEAF_BOTH, V2G_ROOT),
               [issuer_name_hash |-> 0, issuer_key_hash |-> 0, serial_number |-> 0]}

\* whether a write to the bundle of a CA type succeeds: the CSMS bundle on its
\* own, the three others as one
IoOutcomes == {[type \in {CaTypes[k] : k \in 1..4} |-> IF type = "CSMS" THEN csms ELSE other] :
                  csms \in BOOLEAN, other \in BOOLEAN}

\* the CA bundle of a type, as X509CertificateBundle loads it from its path
ca_bundle(c, fs, certificate_type) == BundleOfPath(fs, Directories, c.ca_bundle_path_map[certificate_type])

\* the PEM string holds one certificate and the CA bundle of the type holds it
\* the certificates of a CA bundle, in the order of split
bundle_certificates(b) == IF b = LoadError THEN <<>> ELSE split(b)

\* the certificates that each CA bundle of the store holds
ca_certificates(c, fs) ==
    [ty \in {"V2G", "MO", "CSMS", "MF"} |-> Range(bundle_certificates(ca_bundle(c, fs, ty)))]

ca_bundle_holds(c, fs, certificate, certificate_type) ==
    /\ Len(certificate) = 1
    /\ ca_bundle(c, fs, certificate_type) # LoadError
    /\ contains_certificate(ca_bundle(c, fs, certificate_type), certificate[1])

\* filesystem_utils::get_random_file_name: a name no file of the store has
FreshNames(fs, paths) == {r \in 0..MaxRand : \A q \in paths : ~exists(fs, FilePath(q[1], q[2], r, q[3]))}

----------------------------------------------------------------------------
(* The state machine: a call takes security_mutex (the lock_guard that is   *)
(* the first statement of every operation), its body runs and, returning,   *)
(* releases it                                                              *)

InitOf(scenarios) ==
    /\ \E sc \in scenarios :
           /\ cfg = sc.cfg
           /\ files = ConstructedFiles(sc.cfg, sc.files)
           /\ fresh_key = sc.keys
    /\ ConstructorAccepts(cfg)
    /\ managed_csr = EmptyMap
    /\ csr_issued = EmptyMap
    /\ now = 0
    /\ security_mutex = NoThread
    /\ pc = [t \in Threads |-> Idle]
    /\ ret = [op |-> "none", arg |-> 0, result |-> "none"]

Init == InitOf(Scenarios)

\* an operation that enters without waiting for the mutex
lock_guard_missing(mutex) == TRUE

\* std::lock_guard<std::mutex> guard(security_mutex): proceeds once it is free
lock_guard(mutex) == mutex = NoThread

\* a thread enters one of the operations `ops`
CallOf(t, ops) ==
    /\ pc[t] = Idle
    /\ lock_guard(security_mutex)
    /\ \E op \in (IF t = "timer" THEN {"garbage_collect"} ELSE AppOps \cup InfoOps \cup OcspOps) \cap ops :
           /\ op = "generate_certificate_signing_request" => fresh_key < MaxKeys
           /\ pc' = [pc EXCEPT ![t] = op]
    /\ security_mutex' = t
    /\ UNCHANGED <<cfg, files, managed_csr, now, ret, fresh_key, csr_issued>>

Call(t) == CallOf(t, AppOps \cup {"garbage_collect"})

\* what is kept of a query: its arguments with what it computed and, with
\* history, the arguments alone and the time of the call as well
Asked(history, asked, arg) == IF history THEN [asked |-> asked, at |-> now, answer |-> arg] ELSE arg

\* the return of a call: the guard goes out of scope
Return(t, op, arg, result) ==
    /\ pc' = [pc EXCEPT ![t] = Idle]
    /\ security_mutex' = NoThread
    /\ ret' = [op |-> op, arg |-> arg, result |-> result]

\* install_ca_certificate called with one of the PEM strings `certificates`;
\* with history, the arguments are kept with the outcome of the write, with
\* whether the bundle held the certificate when the call began and with the
\* certificates the CA bundles held then
InstallCaOf(t, certificates, history) ==
    /\ pc[t] = "install_ca_certificate"
    /\ \E certificate \in certificates, certificate_type \in {"V2G", "CSMS"}, io \in BOOLEAN :
       \E rand \in FreshNames(files, {<<cfg.ca_bundle_path_map[certificate_type],
                                       ca_root_prefix(certificate_type), EXT_PEM>>}) :
           \E r \in {install_ca_certificate(cfg, files, now, certificate, certificate_type, rand, io)} :
              /\ files' = r.fs
              /\ Return(t, "install_ca_certificate",
                        IF history
                        THEN [certificate |-> certificate, certificate_type |-> certificate_type, io |-> io,
                              held |-> ca_bundle_holds(cfg, files, certificate, certificate_type),
                              before |-> ca_certificates(cfg, files)]
                        ELSE certificate_type,
                        r.result)
    /\ UNCHANGED <<cfg, managed_csr, now, fresh_key, csr_issued>>

InstallCa(t) == InstallCaOf(t, CaInputs, FALSE)

\* delete_certificate called with one of the hashes `hashes`
DeleteCertificateOf(t, hashes) ==
    /\ pc[t] = "delete_certificate"
    /\ \E certificate_hash_data \in hashes, io \in IoOutcomes :
           \E r \in {delete_certificate(cfg, files, certificate_hash_data, io)} :
              /\ files' = r.fs
              /\ Return(t, "delete_certificate", certificate_hash_data, r.result)
    /\ UNCHANGED <<cfg, managed_csr, now, fresh_key, csr_issued>>

DeleteCertificate(t) == DeleteCertificateOf(t, HashInputs)

\* update_leaf_certificate called with one of the chains `chains`
UpdateLeafOf(t, chains, history) ==
    /\ pc[t] = "update_leaf_certificate"
    /\ \E certificate_chain \in chains, certificate_type \in {"CSMS", "V2G", "MO"},
          io_leaf \in BOOLEAN, io_chain \in BOOLEAN :
       \E rand \in FreshNames(files,
                      {<<IF certificate_type = "CSMS" THEN cfg.csms_leaf_cert_directory
                         ELSE cfg.secc_leaf_cert_directory, pfx, EXT_PEM>> :
                          pfx \in {leaf_certificate_type_to_filename(certificate_type),
                                   leaf_chain_prefix(certificate_type)}}) :
           \E r \in {update_leaf_certificate(cfg, files, managed_csr, now, certificate_chain,
                                            certificate_type, rand, io_leaf, io_chain)} :
              /\ files' = r.fs
              /\ managed_csr' = r.managed_csr
              /\ Return(t, "update_leaf_certificate",
                        IF history
                        THEN [certificate_chain |-> certificate_chain, certificate_type |-> certificate_type,
                              io_leaf |-> io_leaf, io_chain |-> io_chain]
                        ELSE certificate_type,
                        r.result)
    /\ UNCHANGED <<cfg, now, fresh_key, csr_issued>>

UpdateLeaf(t) == UpdateLeafOf(t, LeafInputs(MaxKeys), FALSE)

GenerateCsrOf(t, history) ==
    /\ pc[t] = "generate_certificate_signing_request"
    /\ \E certificate_type \in {"CSMS", "V2G", "MO"}, csr_result \in {"Valid", "KeyGenerationError"} :
       \E rand \in FreshNames(files,
                      {<<IF certificate_type = "CSMS" THEN cfg.csms_leaf_key_directory
                         ELSE cfg.secc_leaf_key_directory,
                         leaf_certificate_type_to_filename(certificate_type), EXT_KEY>>}) :
           \E r \in {generate_certificate_signing_request(cfg, files, managed_csr, now, certificate_type,
                                                         FALSE, rand, fresh_key + 1, csr_result)} :
              /\ files' = r.fs
              /\ managed_csr' = r.managed_csr
              /\ fresh_key' = IF r.status = "Accepted" THEN fresh_key + 1 ELSE fresh_key
              /\ csr_issued' = IF r.status = "Accepted"
                               THEN [k \in DOMAIN csr_issued \cup {fresh_key + 1} |->
                                        IF k = fresh_key + 1 THEN now ELSE csr_issued[k]]
                               ELSE csr_issued
              /\ Return(t, "generate_certificate_signing_request",
                        IF history THEN [certificate_type |-> certificate_type, key_path |-> r.key_path]
                        ELSE r.key_path,
                        r.status)
    /\ UNCHANGED <<cfg, now>>

GenerateCsr(t) == GenerateCsrOf(t, FALSE)

\* get_leaf_certificate_info: the type asked for is kept with the CertificateInfo
GetLeafInfoOf(t, history) ==
    /\ pc[t] = "get_leaf_certificate_info"
    /\ \E certificate_type \in {"CSMS", "V2G", "MO"} :
       \E r \in get_leaf_certificate_info_internal(cfg, files, now, certificate_type) :
           Return(t, "get_leaf_certificate_info",
                  Asked(history, certificate_type, [certificate_type |-> certificate_type, info |-> r]),
                  r.status)
    /\ UNCHANGED <<cfg, files, managed_csr, now, fresh_key, csr_issued>>

GetLeafInfo(t) == GetLeafInfoOf(t, FALSE)

\* update_ocsp_cache: the arguments are kept with the outcomes of the writes;
\* the write of the data can fail, that of the hash file succeeds
UpdateOcspCache(t) ==
    /\ pc[t] = "update_ocsp_cache"
    /\ \E certificate_hash_data \in OcspHashes, ocsp_response \in OcspResponses, rand \in 0..MaxRand,
          io_data \in BOOLEAN, io_hash \in {TRUE} :
           /\ files' = update_ocsp_cache(cfg, files, certificate_hash_data, ocsp_response, rand, io_data, io_hash)
           /\ Cardinality(ocsp_files(files')) <= MaxOcspFiles
           /\ Return(t, "update_ocsp_cache",
                     [certificate_hash_data |-> certificate_hash_data, ocsp_response |-> ocsp_response,
                      io_data |-> io_data, io_hash |-> io_hash],
                     "void")
    /\ UNCHANGED <<cfg, managed_csr, now, fresh_key, csr_issued>>

RetrieveOcspCacheOf(t, history) ==
    /\ pc[t] = "retrieve_ocsp_cache"
    /\ \E certificate_hash_data \in OcspHashes :
           Return(t, "retrieve_ocsp_cache",
                  Asked(history, certificate_hash_data, [certificate_hash_data |-> certificate_hash_data]),
                  retrieve_ocsp_cache_internal(cfg, files, certificate_hash_data))
    /\ UNCHANGED <<cfg, files, managed_csr, now, fresh_key, csr_issued>>

RetrieveOcspCache(t) == RetrieveOcspCacheOf(t, FALSE)

\* verify_certificate with a list of leaf types: the leaf, the untrusted
\* intermediates and the trusted parents of the call are kept with the arguments
VerifyCertificateOf(t, history) ==
    /\ pc[t] = "verify_certificate"
    /\ \E certificate_chain \in VerifyChains, certificate_types \in SUBSET {"V2G", "CSMS"} :
           Return(t, "verify_certificate",
                  Asked(history, <<certificate_chain, certificate_types>>,
                        [certificate_chain |-> certificate_chain, certificate_types |-> certificate_types,
                         leaf_certificate |->
                             IF certificate_chain = <<>> THEN None ELSE Some(certificate_chain[1]),
                         untrusted_subcas |-> untrusted_subcas(certificate_chain),
                         trusted_parent_certificates |->
                             trusted_parent_certificates(cfg, files, now, certificate_types)]),
                  verify_certificate_internal(cfg, files, now, certificate_chain, certificate_types))
    /\ UNCHANGED <<cfg, files, managed_csr, now, fresh_key, csr_issued>>

VerifyCertificate(t) == VerifyCertificateOf(t, FALSE)

\* is_ca_certificate_installed for one CA type
IsCaInstalled(t) ==
    /\ pc[t] = "is_ca_certificate_installed"
    /\ \E certificate_type \in {"V2G", "CSMS"} :
           Return(t, "is_ca_certificate_installed",
                  Asked(TRUE, certificate_type, [certificate_type |-> certificate_type]),
                  is_ca_certificate_installed_internal(cfg, files, now, certificate_type))
    /\ UNCHANGED <<cfg, files, managed_csr, now, fresh_key, csr_issued>>

\* update_certificate_links(V2G): the CertificateInfo the links were made
\* from and the time are kept with the call
UpdateCertificateLinks(t) ==
    /\ pc[t] = "update_certificate_links"
    /\ \E key_pair \in get_leaf_certificate_info_internal(cfg, files, now, "V2G") :
       \E r \in {update_certificate_links(files, Links, key_pair)} :
           /\ files' = r.fs
           /\ Return(t, "update_certificate_links", [key_pair |-> key_pair, at |-> now], r.changed)
    /\ UNCHANGED <<cfg, managed_csr, now, fresh_key, csr_issued>>

\* get_installed_certificates for one root certificate type: the chains are
\* kept with the type
GetInstalledRootsOf(t, history) ==
    /\ pc[t] = "get_installed_certificates"
    /\ \E certificate_type \in {"V2G", "CSMS"} :
       \E chains \in {get_installed_root_certificates(cfg, files, certificate_type)} :
           Return(t, "get_installed_certificates",
                  Asked(history, certificate_type,
                        [certificate_type |-> certificate_type, certificate_hash_data_chain |-> chains]),
                  IF chains = <<>> THEN "NotFound" ELSE "Accepted")
    /\ UNCHANGED <<cfg, files, managed_csr, now, fresh_key, csr_issued>>

GetInstalledRoots(t) == GetInstalledRootsOf(t, FALSE)

GetInstalled(t) ==
    /\ pc[t] = "get_installed_certificates"
    /\ Return(t, "get_installed_certificates", 0,
              IF get_installed_certificates(cfg, files, now) = {} THEN "NotFound" ELSE "Accepted")
    /\ UNCHANGED <<cfg, files, managed_csr, now, fresh_key, csr_issued>>

\* the chains for_each_chain_ordered can bring first in the two leaf directories;
\* one directory in both roles is sorted the same way both times
KeepInputs(c, fs) ==
    {k \in [CSMS : KeepChoices(BundleOfPath(fs, Directories, c.csms_leaf_cert_directory)),
            V2G : KeepChoices(BundleOfPath(fs, Directories, c.secc_leaf_cert_directory))] :
        c.csms_leaf_cert_directory = c.secc_leaf_cert_directory => k.CSMS = k.V2G}

GarbageCollect(t) ==
    /\ pc[t] = "garbage_collect"
    /\ \E keep \in KeepInputs(cfg, files) :
           \E r \in {garbage_collect(cfg, files, managed_csr, now, keep)} :
              /\ files' = r.fs
              /\ managed_csr' = r.managed_csr
              /\ Return(t, "garbage_collect", 0, "void")
    /\ UNCHANGED <<cfg, now, fresh_key, csr_issued>>

\* a second passes
Tick ==
    /\ now < MaxTime
    /\ now' = now + 1
    /\ UNCHANGED <<cfg, files, managed_csr, security_mutex, pc, ret, fresh_key, csr_issued>>

Next ==
    \/ \E t \in Threads : Call(t)
    \/ \E t \in Threads : InstallCa(t)
    \/ \E t \in Threads : DeleteCertificate(t)
    \/ \E t \in Threads : UpdateLeaf(t)
    \/ \E t \in Threads : GenerateCsr(t)
    \/ \E t \in Threads : GetInstalled(t)
    \/ \E t \in Threads : GarbageCollect(t)
    \/ Tick

Spec == Init /\ [][Next]_vars

----------------------------------------------------------------------------
(* An application that deletes certificates from an installed store and     *)
(* lists what is left                                                       *)

InitDelete == InitOf(DeleteScenarios)

NextDelete ==
    \/ \E t \in Threads : CallOf(t, {"delete_certificate", "get_installed_certificates"})
    \/ \E t \in Threads : DeleteCertificate(t)
    \/ \E t \in Threads : GetInstalled(t)

SpecDelete == InitDelete /\ [][NextDelete]_vars

----------------------------------------------------------------------------
(* The timer collecting garbage in a store of many leaves, while the        *)
(* application asks for a certificate and installs it                       *)

InitGc == InitOf(GcScenarios)

\* the certificate issued for a generated key: valid now, expired a second later
GcLeafInputs == {<<Leaf(V2G_ROOT, k, 0)>> : k \in 1..MaxKeys}

NextGc ==
    \/ \E t \in Threads : CallOf(t, {"garbage_collect", "generate_certificate_signing_request",
                                     "update_leaf_certificate"})
    \/ \E t \in Threads : GarbageCollect(t)
    \/ \E t \in Threads : GenerateCsr(t)
    \/ \E t \in Threads : UpdateLeafOf(t, GcLeafInputs, FALSE)
    \/ Tick

SpecGc == InitGc /\ [][NextGc]_vars

----------------------------------------------------------------------------
(* Certificate signing requests that are never answered.  The timer fires   *)
(* again and again (garbage_collect_timer.interval) and gets the mutex, a   *)
(* call that holds the mutex returns, and the clock advances                *)

InitCsr == InitOf(CsrScenarios)

NextCsr ==
    \/ \E t \in Threads : CallOf(t, {"garbage_collect", "generate_certificate_signing_request"})
    \/ \E t \in Threads : GarbageCollect(t)
    \/ \E t \in Threads : GenerateCsr(t)
    \/ Tick

\* the operation thread t has entered runs to its end and returns: no
\* operation waits or loops without bound once it holds the mutex
Finishes(t) == pc[t] # Idle /\ pc' = [pc EXCEPT ![t] = Idle]

\* time passes, the timer gets the mutex again and again, and every operation
\* that was entered returns
SpecCsr ==
    /\ InitCsr /\ [][NextCsr]_vars
    /\ WF_vars(Tick)
    /\ SF_vars(CallOf("timer", {"garbage_collect"}))
    /\ \A t \in Threads : WF_pc(Finishes(t))

----------------------------------------------------------------------------
(* An application that installs CA certificates and deletes them again *)

InitInstall == InitOf(InstallScenarios)

\* one application thread makes the calls, one after the other
Caller == {"app1"}

NextInstall ==
    \/ \E t \in Caller : CallOf(t, {"install_ca_certificate", "delete_certificate"})
    \/ \E t \in Caller : InstallCaOf(t, InstallInputs, TRUE)
    \/ \E t \in Caller : DeleteCertificateOf(t, InstallHashes)
    \/ Tick

SpecInstall == InitInstall /\ [][NextInstall]_vars

----------------------------------------------------------------------------
(* An application that requests leaf certificates and installs them *)

InitLeaf == InitOf(LeafScenarios)

NextLeaf ==
    \/ \E t \in Caller : CallOf(t, {"install_ca_certificate", "generate_certificate_signing_request",
                                     "update_leaf_certificate", "get_leaf_certificate_info"})
    \/ \E t \in Caller : GetLeafInfo(t)
    \/ \E t \in Caller : InstallCaOf(t, {<<>>}, TRUE)
    \/ \E t \in Caller : GenerateCsrOf(t, TRUE)
    \/ \E t \in Caller : UpdateLeafOf(t, LeafChains, TRUE)

SpecLeaf == InitLeaf /\ [][NextLeaf]_vars

----------------------------------------------------------------------------
(* An application that asks for the leaf certificate of a role while leaf *)
(* certificates are requested and installed                               *)

\* both roots installed and no leaf
StoreRoots == MakeFs({<<V2G_BUNDLE, PemFile(<<V2G_ROOT>>)>>, <<CSMS_BUNDLE, PemFile(<<CSMS_ROOT>>)>>})

\* both roots installed, the old leaf SECC_LEAF_4.pem, and its key lost
StoreNoKey ==
    MakeFs({<<V2G_BUNDLE, PemFile(<<V2G_ROOT>>)>>, <<CSMS_BUNDLE, PemFile(<<CSMS_ROOT>>)>>,
            <<FilePath(D_CSO, PFX_SECC_LEAF, 4, EXT_PEM), PemFile(<<OLD_LEAF>>)>>})

\* stores for get_leaf_certificate_info: without a leaf, with a leaf without
\* its key, and a fresh store whose V2G bundle file is in the SECC leaf directory
InfoScenarios ==
    {[cfg |-> Config(PathsSplit, 50, 50, 1), files |-> StoreRoots, keys |-> 0],
     [cfg |-> Config(PathsSplit, 50, 50, 1), files |-> StoreNoKey, keys |-> 0],
     [cfg |-> Config(PathsInner, 50, 50, 1), files |-> EmptyMap, keys |-> 0]}

\* PEM strings for update_leaf_certificate: a valid leaf of the V2G root for
\* the generated key 1 and one that is not yet valid
InfoChains == {<<LEAF_BOTH>>, <<FUTURE_LEAF>>}

InitInfo == InitOf(InfoScenarios)

NextInfo ==
    \/ \E t \in Caller : CallOf(t, {"generate_certificate_signing_request", "update_leaf_certificate",
                                     "get_leaf_certificate_info"})
    \/ \E t \in Caller : GetLeafInfo(t)
    \/ \E t \in Caller : GenerateCsrOf(t, TRUE)
    \/ \E t \in Caller : UpdateLeafOf(t, InfoChains, TRUE)

SpecInfo == InitInfo /\ [][NextInfo]_vars

----------------------------------------------------------------------------
(* An application that keeps the OCSP cache of an installed V2G chain *)

\* the V2G root, and the chain of LEAF_SECC and the sub-CA with the key of the leaf
StoreChain ==
    MakeFs({<<V2G_BUNDLE, PemFile(<<V2G_ROOT>>)>>, <<CSMS_BUNDLE, PemFile(<<CSMS_ROOT>>)>>,
            <<FilePath(D_CSO, PFX_SECC_LEAF, 0, EXT_PEM), PemFile(<<LEAF_SECC>>)>>,
            <<FilePath(D_CSO, PFX_CPO_SECC_CHAIN, 0, EXT_PEM), PemFile(<<LEAF_SECC, SUB_CA>>)>>,
            <<FilePath(D_CSO, PFX_SECC_LEAF, 0, EXT_KEY), KeyFile(1)>>})

\* stores for the OCSP cache: the chain beside its key, and a leaf with its
\* key in a key directory of its own
OcspScenarios ==
    {[cfg |-> Config(PathsSplit, 50, 50, 1), files |-> StoreChain, keys |-> 2],
     [cfg |-> Config(PathsKeys, 50, 50, 1), files |-> StoreKeys, keys |-> 2]}

InitOcsp == InitOf(OcspScenarios)

NextOcsp ==
    \/ \E t \in Caller : CallOf(t, {"update_ocsp_cache", "retrieve_ocsp_cache"})
    \/ \E t \in Caller : UpdateOcspCache(t)
    \/ \E t \in Caller : RetrieveOcspCache(t)

SpecOcsp == InitOcsp /\ [][NextOcsp]_vars

----------------------------------------------------------------------------
(* An application that verifies certificate chains while roots are installed *)

\* fresh stores and one whose V2G bundle holds the sub-CA without its root
VerifyScenarios ==
    {[cfg |-> Config(PathsSplit, 50, 50, 0), files |-> EmptyMap, keys |-> 0],
     [cfg |-> Config(PathsSplit, 50, 50, 0), files |-> StoreOrphan, keys |-> 0],
     [cfg |-> Config(PathsKeys, 50, 50, 0), files |-> EmptyMap, keys |-> 0]}

InitVerify == InitOf(VerifyScenarios)

NextVerify ==
    \/ \E t \in Caller : CallOf(t, {"install_ca_certificate", "verify_certificate"})
    \/ \E t \in Caller : InstallCaOf(t, {<<V2G_ROOT>>, <<SHORT_ROOT>>}, FALSE)
    \/ \E t \in Caller : VerifyCertificate(t)
    \/ Tick

SpecVerify == InitVerify /\ [][NextVerify]_vars

----------------------------------------------------------------------------
(* An application that renews the V2G leaf and keeps the links up to date *)

\* the V2G root, and the chain of CHAIN_LEAF and the sub-CA as
\* update_leaf_certificate leaves it, with the key of the leaf
StoreLinks ==
    MakeFs({<<V2G_BUNDLE, PemFile(<<V2G_ROOT>>)>>, <<CSMS_BUNDLE, PemFile(<<CSMS_ROOT>>)>>,
            <<FilePath(D_CSO, PFX_SECC_LEAF, 4, EXT_PEM), PemFile(<<CHAIN_LEAF>>)>>,
            <<FilePath(D_CSO, PFX_CPO_SECC_CHAIN, 4, EXT_PEM), PemFile(<<CHAIN_LEAF, SUB_CA>>)>>,
            <<FilePath(D_CSO, PFX_SECC_LEAF, 4, EXT_KEY), KeyFile(11)>>})

LinkScenarios == {[cfg |-> Config(PathsSplit, 50, 50, 1), files |-> StoreLinks, keys |-> 0]}

InitLinks == InitOf(LinkScenarios)

NextLinks ==
    \/ \E t \in Caller : CallOf(t, {"generate_certificate_signing_request", "update_leaf_certificate",
                                     "update_certificate_links"})
    \/ \E t \in Caller : GenerateCsrOf(t, FALSE)
    \/ \E t \in Caller : UpdateLeafOf(t, {<<LEAF_BOTH>>}, FALSE)
    \/ \E t \in Caller : UpdateCertificateLinks(t)
    \/ Tick

SpecLinks == InitLinks /\ [][NextLinks]_vars

----------------------------------------------------------------------------
(* An application that installs roots and sub-CAs and lists what is installed *)

\* PEM strings for install_ca_certificate: a root, a sub-CA it issued, and a
\* sub-CA that this one issued
RootInputs == {<<V2G_ROOT>>, <<SUB_CA>>, <<SUB_CA2>>}

\* fresh stores: the CSMS bundle a file, and a directory
RootScenarios ==
    {[cfg |-> Config(PathsSplit, 50, 50, 0), files |-> EmptyMap, keys |-> 0],
     [cfg |-> Config(PathsKeys, 50, 50, 0), files |-> EmptyMap, keys |-> 0]}

InitRoots == InitOf(RootScenarios)

NextRoots ==
    \/ \E t \in Caller : CallOf(t, {"install_ca_certificate", "get_installed_certificates"})
    \/ \E t \in Caller : InstallCaOf(t, RootInputs, TRUE)
    \/ \E t \in Caller : GetInstalledRoots(t)

SpecRoots == InitRoots /\ [][NextRoots]_vars

----------------------------------------------------------------------------
(* Two applications that ask about the store while a root is installed and *)
(* a key pair is generated                                                 *)

Readers == {"app1", "app2"}

\* the operations that only ask
QueryOps == {"get_installed_certificates", "get_leaf_certificate_info", "is_ca_certificate_installed",
             "verify_certificate", "retrieve_ocsp_cache"}

\* the operations of the applications that write
WriterOps == {"install_ca_certificate", "generate_certificate_signing_request"}

\* the store of a renewed V2G leaf, and a fresh one with the keys apart
QueryScenarios ==
    {[cfg |-> Config(PathsSplit, 50, 50, 1), files |-> StoreLinks, keys |-> 0],
     [cfg |-> Config(PathsKeys, 50, 50, 1), files |-> EmptyMap, keys |-> 0]}

InitQuery == InitOf(QueryScenarios)

NextQuery ==
    \/ \E t \in Readers : CallOf(t, QueryOps \cup WriterOps)
    \/ \E t \in Readers : InstallCaOf(t, {<<SHORT_ROOT>>}, FALSE)
    \/ \E t \in Readers : GenerateCsrOf(t, FALSE)
    \/ \E t \in Readers : GetInstalledRootsOf(t, TRUE)
    \/ \E t \in Readers : GetLeafInfoOf(t, TRUE)
    \/ \E t \in Readers : IsCaInstalled(t)
    \/ \E t \in Readers : VerifyCertificateOf(t, TRUE)
    \/ \E t \in Readers : RetrieveOcspCacheOf(t, TRUE)
    \/ Tick

SpecQuery == InitQuery /\ [][NextQuery]_vars

----------------------------------------------------------------------------
(* build_hierarchy applied to the certificates of a V2G bundle file, which  *)
(* holds them in any order, alone and with the chain file of the SECC leaf  *)
(* directory, and get_certificate_hash asked of the hierarchy               *)

\* the certificates of the bundles: two roots, a sub-CA and its renewal, a
\* sub-CA of the sub-CA and a leaf of the sub-CA
HierarchyCerts == {V2G_ROOT, OTHER_ROOT, SUB_CA, SUB_CA_RENEWED, SUB_CA2, LEAF_SECC}

\* the lists of distinct certificates
ListsOf(certs, n) == {s \in [1..n -> certs] : \A i, j \in 1..n : s[i] = s[j] => i = j}

HierarchyInputs == UNION {ListsOf(HierarchyCerts, n) : n \in 0..MaxCerts}

\* the chain file of the leaf directory holds the leaf and its sub-CA
LeafChainFiles == {{}, {<<FilePath(D_CSO, PFX_CPO_SECC_CHAIN, 0, EXT_PEM), PemFile(<<LEAF_SECC, SUB_CA>>)>>}}

HierarchyScenarios ==
    {[cfg |-> Config(PathsSplit, 50, 50, 0), files |-> MakeFs({<<V2G_BUNDLE, PemFile(s)>>} \cup chain),
      keys |-> 0] : s \in HierarchyInputs, chain \in LeafChainFiles}

InitHierarchy == InitOf(HierarchyScenarios)

\* X509CertificateBundle::get_certificate_hierarchy of the V2G bundle: the
\* certificates are kept with the hierarchy that is built from them
BuildHierarchy(t) ==
    /\ pc[t] = Idle
    /\ ret.op = "none"
    /\ \E b \in {ca_bundle(cfg, files, "V2G")} :
           /\ b # LoadError
           /\ ret' = [op |-> "build_hierarchy", arg |-> split(b), result |-> get_certificate_hierarchy(b)]
    /\ UNCHANGED <<cfg, files, managed_csr, now, security_mutex, pc, fresh_key, csr_issued>>

\* build_hierarchy(ca_bundle.split(), leaf_bundle.split()) of the V2G bundle
\* and the SECC leaf directory: the certificates are kept in the order of
\* their insertion
BuildLeafHierarchy(t) ==
    /\ pc[t] = Idle
    /\ ret.op = "none"
    /\ \E b \in {ca_bundle(cfg, files, "V2G")},
          leaf_bundle \in {BundleOfPath(files, Directories, cfg.secc_leaf_cert_directory)} :
           /\ b # LoadError
           /\ leaf_bundle # LoadError
           /\ ret' = [op |-> "build_hierarchy2", arg |-> split(b) \o split(leaf_bundle),
                      result |-> build_hierarchy2(split(b), split(leaf_bundle))]
    /\ UNCHANGED <<cfg, files, managed_csr, now, security_mutex, pc, fresh_key, csr_issued>>

BuildOps == {"build_hierarchy", "build_hierarchy2"}

\* get_certificate_hash asked of the hierarchy that was built: the hierarchy
\* and the certificate are kept with the outcome
GetCertificateHash(t) ==
    /\ pc[t] = Idle
    /\ ret.op \in BuildOps
    /\ ~ret.result.error
    /\ \E certificate \in HierarchyCerts, uninitialized \in BOOLEAN :
           ret' = [op |-> "get_certificate_hash",
                   arg |-> [hierarchy |-> ret.result, certificate |-> certificate],
                   result |-> get_certificate_hash_out(ret.result, certificate, uninitialized)]
    /\ UNCHANGED <<cfg, files, managed_csr, now, security_mutex, pc, fresh_key, csr_issued>>

NextHierarchy ==
    \/ \E t \in Caller : BuildHierarchy(t)
    \/ \E t \in Caller : BuildLeafHierarchy(t)
    \/ \E t \in Caller : GetCertificateHash(t)

SpecHierarchy == InitHierarchy /\ [][NextHierarchy]_vars

----------------------------------------------------------------------------
(* A bundle object made over a CA bundle, a file or a directory, and given *)
(* the calls of its class; ret holds the last call and the object after it *)

\* the V2G bundle a file and the CSMS bundle a directory, each with one root
StoreBundles ==
    MakeFs({<<V2G_BUNDLE, PemFile(<<V2G_ROOT>>)>>,
            <<FilePath(D_CA_CSMS, PFX_CSMS_ROOT, 4, EXT_PEM), PemFile(<<V2G_ROOT>>)>>})

BundleScenarios == {[cfg |-> Config(PathsKeys, 50, 50, 0), files |-> StoreBundles, keys |-> 0]}

InitBundle == InitOf(BundleScenarios)

BundleOps == {"X509CertificateBundle", "add_certificate", "add_certificate_unique", "update_certificate",
              "delete_certificate", "delete_all_certificates", "get_certficate_hierarchy",
              "export_certificates"}

\* the object
held == ret.result

\* the wrappers that install_ca_certificate makes: without a file for a file
\* bundle, and set_file to a new name in the directory for a directory bundle
BundleInputs(o) ==
    {Wrapped(c, file) :
        c \in {V2G_ROOT, SUB_CA},
        file \in IF o.source = "DIRECTORY"
                 THEN {Some(FilePath(o.path, PFX_CSMS_ROOT, rand, EXT_PEM)) : rand \in 0..MaxRand}
                 ELSE {None}}

\* one more call on the object: what is kept with it
Called(op, arg, o) ==
    /\ ret' = [op |-> op, arg |-> arg, result |-> o]
    /\ UNCHANGED <<cfg, managed_csr, now, security_mutex, pc, fresh_key, csr_issued>>

Construct(t) ==
    /\ pc[t] = Idle
    /\ ret.op = "none"
    /\ \E certificate_type \in {"V2G", "CSMS"} :
       \E o \in {X509CertificateBundle(files, Directories, cfg.ca_bundle_path_map[certificate_type])} :
           o # LoadError /\ Called("X509CertificateBundle", o.path, o)
    /\ files' = files

\* the object can be given one more certificate; begin() of a file bundle
\* whose map was cleared is not dereferenced
Grows(o) ==
    /\ get_certificate_count(unwrapped(o)) <= MaxHeld
    /\ o.source = "FILE" => DOMAIN o.certificates # {}

BundleAdd(t) ==
    /\ pc[t] = Idle
    /\ ret.op \in BundleOps
    /\ Grows(held)
    /\ \E w \in BundleInputs(held) :
       \E r \in {bundle_add_certificate(held, w)} : Called("add_certificate", w, r.bundle)
    /\ files' = files

BundleAddUnique(t) ==
    /\ pc[t] = Idle
    /\ ret.op \in BundleOps
    /\ Grows(held)
    /\ \E w \in BundleInputs(held) :
       \E r \in {bundle_add_certificate_unique(held, w)} : Called("add_certificate_unique", w, r.bundle)
    /\ files' = files

BundleUpdate(t) ==
    /\ pc[t] = Idle
    /\ ret.op \in BundleOps
    /\ \E w \in BundleInputs(held) :
       \E r \in {bundle_update_certificate(held, w)} : Called("update_certificate", w, r.bundle)
    /\ files' = files

BundleDelete(t) ==
    /\ pc[t] = Idle
    /\ ret.op \in BundleOps
    /\ \E c \in {V2G_ROOT, SUB_CA}, include_issued \in BOOLEAN :
           Called("delete_certificate", c, bundle_delete_wrapped(held, c, include_issued))
    /\ files' = files

BundleDeleteHash(t) ==
    /\ pc[t] = Idle
    /\ ret.op \in BundleOps
    /\ \E hash \in {get_certificate_hash_data_self(V2G_ROOT), get_certificate_hash_data(SUB_CA, V2G_ROOT)} :
       \E include_issued \in BOOLEAN :
           Called("delete_certificate", hash, bundle_delete_hashed(held, hash, include_issued))
    /\ files' = files

BundleDeleteAll(t) ==
    /\ pc[t] = Idle
    /\ ret.op \in BundleOps
    /\ Called("delete_all_certificates", 0, bundle_delete_all_certificates(held))
    /\ files' = files

\* get_certficate_hierarchy: the hierarchy that is returned is kept
BundleGetHierarchy(t) ==
    /\ pc[t] = Idle
    /\ ret.op \in BundleOps
    /\ \E o \in {bundle_get_certficate_hierarchy(held)} : Called("get_certficate_hierarchy", o.hierarchy, o)
    /\ files' = files

\* export_certificates: what it returned is kept with the object it was called on
BundleExport(t) ==
    /\ pc[t] = Idle
    /\ ret.op \in BundleOps
    /\ \E io \in BOOLEAN :
       \E e \in {bundle_export_certificates(files, Directories, held, io)} :
           /\ files' = e.fs
           /\ Called("export_certificates", [ok |-> e.ok, exported |-> held], e.bundle)

NextBundle ==
    \/ \E t \in Caller : Construct(t)
    \/ \E t \in Caller : BundleAdd(t)
    \/ \E t \in Caller : BundleAddUnique(t)
    \/ \E t \in Caller : BundleUpdate(t)
    \/ \E t \in Caller : BundleDelete(t)
    \/ \E t \in Caller : BundleDeleteHash(t)
    \/ \E t \in Caller : BundleDeleteAll(t)
    \/ \E t \in Caller : BundleGetHierarchy(t)
    \/ \E t \in Caller : BundleExport(t)

SpecBundle == InitBundle /\ [][NextBundle]_vars

----------------------------------------------------------------------------
(* The applications and the timer waiting for security_mutex: a thread     *)
(* arrives at the std::lock_guard of an operation, gets the mutex when it  *)
(* is free, runs the body with the member functions the body calls, and    *)
(* returns                                                                  *)

\* the member functions of EvseSecurity that begin with
\* std::lock_guard<std::mutex> guard(EvseSecurity::security_mutex)
locking ==
    {"install_ca_certificate", "delete_certificate", "update_leaf_certificate", "get_installed_certificates",
     "get_count_of_installed_certificates", "get_v2g_ocsp_request_data", "get_mo_ocsp_request_data",
     "update_ocsp_cache", "retrieve_ocsp_cache", "is_ca_certificate_installed",
     "generate_certificate_signing_request", "get_all_valid_certificates_info", "get_leaf_certificate_info",
     "update_certificate_links", "get_ca_certificate_info", "get_verify_file", "get_verify_location",
     "get_leaf_expiry_days_count", "verify_file_signature", "verify_certificate", "garbage_collect"}

\* the entry points calling the locking functions for their work
calls_public(f) ==
    CASE f = "retrieve_ocsp_cache" -> {"retrieve_ocsp_cache"}
      [] f = "verify_certificate" -> {"verify_certificate_internal"}
      [] f = "verify_certificate_internal" -> {"is_ca_certificate_installed"}
      [] f = "get_leaf_certificate_info" -> {"get_leaf_certificate_info_internal"}
      [] f = "get_leaf_certificate_info_internal" -> {"get_full_leaf_certificate_info_internal"}
      [] f = "get_full_leaf_certificate_info_internal" -> {"retrieve_ocsp_cache"}
      [] f = "garbage_collect" -> {"is_filesystem_full"}
      [] OTHER -> {}

\* the member functions of EvseSecurity that the body of f calls
calls(f) ==
    CASE f \in {"install_ca_certificate", "garbage_collect"} -> {"is_filesystem_full"}
      [] f = "update_leaf_certificate" -> {"is_filesystem_full", "verify_certificate_internal"}
      [] f \in {"get_installed_certificates", "get_v2g_ocsp_request_data", "get_all_valid_certificates_info",
                "get_leaf_certificate_info_internal"} -> {"get_full_leaf_certificate_info_internal"}
      [] f = "retrieve_ocsp_cache" -> {"retrieve_ocsp_cache_internal"}
      [] f = "is_ca_certificate_installed" -> {"is_ca_certificate_installed_internal"}
      [] f = "generate_certificate_signing_request" -> {"generate_certificate_signing_request_internal"}
      [] f \in {"get_leaf_certificate_info", "update_certificate_links", "get_leaf_expiry_days_count"} ->
             {"get_leaf_certificate_info_internal"}
      [] f = "get_full_leaf_certificate_info_internal" -> {"retrieve_ocsp_cache_internal"}
      [] f \in {"get_ca_certificate_info", "get_verify_file"} -> {"get_ca_certificate_info_internal"}
      [] f = "verify_certificate" -> {"verify_certificate_internal"}
      [] f = "verify_certificate_internal" -> {"is_ca_certificate_installed_internal"}
      [] OTHER -> {}

\* the longest chain of calls that is followed
MaxDepth == 4

RECURSIVE entered_within(_, _)
entered_within(fs, depth) ==
    IF depth = 0 THEN fs ELSE entered_within(fs \cup UNION {calls(f) : f \in fs}, depth - 1)

\* the member functions entered while the body of f runs
entered(f) == entered_within(calls(f), MaxDepth)

\* the chain, its key and the roots, with the leaf directory full of nothing else
MutexScenarios == {[cfg |-> Config(PathsSplit, 50, 50, 1), files |-> StoreChain, keys |-> 0]}

InitMutex == InitOf(MutexScenarios)

MutexOps == {"get_leaf_certificate_info", "retrieve_ocsp_cache", "verify_certificate", "garbage_collect"}

\* the thread is at the std::lock_guard of an operation
AtGuard == "lock_guard"

\* a thread calls an operation and arrives at its lock_guard
Arrive(t) ==
    /\ pc[t] = Idle
    /\ pc' = [pc EXCEPT ![t] = AtGuard]
    /\ UNCHANGED <<cfg, files, managed_csr, now, security_mutex, ret, fresh_key, csr_issued>>

\* the lock_guard is constructed: the thread has the mutex and is in the body
Acquire(t) ==
    /\ pc[t] = AtGuard
    /\ lock_guard(security_mutex)
    /\ \E op \in (IF t = "timer" THEN {"garbage_collect"} ELSE MutexOps \ {"garbage_collect"}) :
           pc' = [pc EXCEPT ![t] = op]
    /\ security_mutex' = t
    /\ UNCHANGED <<cfg, files, managed_csr, now, ret, fresh_key, csr_issued>>

\* the body of the operation of t gets past every lock_guard of the functions
\* it enters; std::mutex is not recursive, a second lock by its owner waits
Runs(t) == \A f \in entered(pc[t]) : f \in locking => lock_guard(security_mutex)

NextMutex ==
    \/ \E t \in Threads : Arrive(t)
    \/ \E t \in Threads : Acquire(t)
    \/ \E t \in Threads : Runs(t) /\ GetLeafInfo(t)
    \/ \E t \in Threads : Runs(t) /\ RetrieveOcspCache(t)
    \/ \E t \in Threads : Runs(t) /\ VerifyCertificate(t)
    \/ \E t \in Threads : Runs(t) /\ GarbageCollect(t)

\* the body that runs comes to its end and the thread leaves the operation
Leaves(t) == pc[t] \in MutexOps /\ Runs(t) /\ pc' = [pc EXCEPT ![t] = Idle]

\* a body that runs returns, and a thread at a lock_guard is not passed over
\* for ever when the mutex is free again and again
SpecMutex ==
    /\ InitMutex /\ [][NextMutex]_vars
    /\ \A t \in Threads : WF_pc(Leaves(t))
    /\ \A t \in Threads : SF_vars(Acquire(t))

----------------------------------------------------------------------------
(* What a CertificateHashData matches in a store *)

\* the hash is found in the hierarchy of the CA bundle of some type
matches_ca_bundle(c, fs, hash) ==
    \E k \in 1..4 : \E b \in {BundleOfPath(fs, Directories, c.ca_bundle_path_map[CaTypes[k]])} :
        b # LoadError /\ find_certificate(get_certificate_hierarchy(b), hash) # <<>>

leaf_cert_directory(c, leaf_type) ==
    IF leaf_type = "CSMS" THEN c.csms_leaf_cert_directory ELSE c.secc_leaf_cert_directory

leaf_key_directory(c, leaf_type) ==
    IF leaf_type = "CSMS" THEN c.csms_leaf_key_directory ELSE c.secc_leaf_key_directory

\* the hierarchy delete_certificate builds for a leaf directory
leaf_hierarchy(c, fs, dir) ==
    build_hierarchy2(split(BundleOfPath(fs, Directories,
                                        c.ca_bundle_path_map[IF dir = c.secc_leaf_cert_directory
                                                             THEN "V2G" ELSE "CSMS"])),
                     split(BundleOfPath(fs, Directories, dir)))

\* the certificates of the leaf directory the hash resolves to
resolved_certificates(c, fs, hash, leaf_type) ==
    \* every node of the hierarchy whose hash is the given one
    {nd.certificate : nd \in Range(find_certificates_multi(
                                       leaf_hierarchy(c, fs, leaf_cert_directory(c, leaf_type)), hash))}

\* the certificate files of the leaf directory holding such a certificate
resolved_files(c, fs, hash, leaf_type) ==
    {p \in FilesUnder(fs, leaf_cert_directory(c, leaf_type)) :
        /\ is_certificate_file(fs, p)
        /\ Range(load_certificates(fs[p])) \cap resolved_certificates(c, fs, hash, leaf_type) # {}}

\* the certificate files of a leaf directory, each with the key file of its leaf
leaf_files_with_keys(c, fs, leaf_type) ==
    UNION {{p} \cup (IF load_certificates(fs[p]) = <<>> THEN {}
                     ELSE Range(get_private_key_path_of_certificate(
                                    fs, load_certificates(fs[p])[1], Some(p), leaf_key_directory(c, leaf_type)))) :
           p \in {q \in FilesUnder(fs, leaf_cert_directory(c, leaf_type)) : is_certificate_file(fs, q)}}

\* the files kept next to the leaf certificates: chains, keys and OCSP data
leaf_side_files(c, fs) ==
    UNION {FilesUnder(fs, LeafDirs(c)[i]) : i \in 1..4}
    \ {c.ca_bundle_path_map[CaTypes[k]] : k \in 1..4}

Unchanged(fs, fs1, S) == \A p \in S : p \in DOMAIN fs1 /\ fs1[p] = fs[p]

\* thread t returns from the body of operation op in this step
Returns(t, op) == pc[t] = op /\ pc'[t] = Idle

----------------------------------------------------------------------------
(* delete_certificate *)

\* C1: a hash that matches no CA bundle and resolves to a certificate of the
\* CSMS leaf directory makes delete_certificate return Failed, and every
\* certificate file of the CSMS leaf directory and the key file of its leaf
\* are still there, unchanged, after the call
C1_CsmsLeafKept ==
    [][\A t \in Threads :
          (/\ Returns(t, "delete_certificate")
           /\ ~matches_ca_bundle(cfg, files, ret'.arg)
           /\ resolved_files(cfg, files, ret'.arg, "CSMS") # {})
          => /\ ret'.result = "Failed"
             /\ Unchanged(files, files', leaf_files_with_keys(cfg, files, "CSMS"))]_vars

\* C2: when the hash matches a certificate of a CA bundle, the call deletes
\* or modifies no chain file, key file or OCSP file of the leaf directories,
\* whether the export of the bundle succeeds or fails
C2_LeafFilesUntouched ==
    [][\A t \in Threads :
          (Returns(t, "delete_certificate") /\ matches_ca_bundle(cfg, files, ret'.arg))
          => /\ ret'.result \in {"Accepted", "Failed"}
             /\ Unchanged(files, files', leaf_side_files(cfg, files))]_vars

----------------------------------------------------------------------------
(* The mutex *)

\* the threads inside the body of an operation
InBody == {t \in Threads : pc[t] # Idle}

\* C9: an operation or a garbage_collect pass is inside its body only while
\* it holds security_mutex, taken before its first read or write and held
\* until it returns, so no two of them are inside their bodies at one time
C9_MutualExclusion ==
    /\ \A t \in InBody : security_mutex = t
    /\ Cardinality(InBody) <= 1
    /\ InBody = {} => security_mutex = NoThread

\* a garbage_collect pass of the timer is in its body, after an operation of
\* an application thread returned, while both application threads wait
C9_Witness ==
    /\ pc["timer"] = "garbage_collect"
    /\ security_mutex = "timer"
    /\ ret.op = "install_ca_certificate"
    /\ pc["app1"] = Idle /\ pc["app2"] = Idle

----------------------------------------------------------------------------
(* The filesystem caps *)

\* the store is over its caps: more tracked files than
\* max_fs_certificate_store_entries, or their sizes summed up reach
\* max_fs_usage_bytes
OverCaps(c, fs) ==
    \/ Cardinality(TrackedFiles(c, fs)) > c.max_fs_certificate_store_entries
    \/ SumSeq([i \in 1..Cardinality(TrackedFiles(c, fs)) |->
                  file_size(fs[SortPaths(TrackedFiles(c, fs))[i]])]) >= c.max_fs_usage_bytes

\* C10: on a store over its caps install_ca_certificate and
\* update_leaf_certificate return CertificateStoreMaxLengthExceeded and leave
\* the files and managed_csr as they were
C10_FullStoreRefuses ==
    [][\A t \in Threads :
          ((Returns(t, "install_ca_certificate") \/ Returns(t, "update_leaf_certificate"))
           /\ OverCaps(cfg, files))
          => /\ ret'.result = "CertificateStoreMaxLengthExceeded"
             /\ files' = files
             /\ managed_csr' = managed_csr]_vars

\* C11: is_filesystem_full is true exactly when the tracked files are more
\* than max_fs_certificate_store_entries or the sizes of all of them, summed
\* up, reach max_fs_usage_bytes
C11_FullIffOverCaps == is_filesystem_full(cfg, files) <=> OverCaps(cfg, files)

----------------------------------------------------------------------------
(* install_ca_certificate *)

\* the argument record of the install_ca_certificate call that returns in this step
installed == ret'.arg

\* the chain files of a CA bundle
bundle_paths(b) == IF b = LoadError THEN {} ELSE DOMAIN b.certificates

\* the call left the CA bundle of its type with the certificates, in number
\* and value, and the chain files it had, the installed certificate among them
SameBundle(c, fs, fs1, certificate, certificate_type) ==
    /\ Len(bundle_certificates(ca_bundle(c, fs1, certificate_type)))
           = Len(bundle_certificates(ca_bundle(c, fs, certificate_type)))
    /\ bundle_paths(ca_bundle(c, fs1, certificate_type)) = bundle_paths(ca_bundle(c, fs, certificate_type))
    /\ ca_bundle_holds(c, fs1, certificate, certificate_type)

\* C12 as stated: install_ca_certificate of a certificate the CA bundle of
\* the type already holds returns Accepted and leaves the bundle with the same
\* number of certificates and the same chain files, the certificate among them
C12_InstallIdempotent_AsStated ==
    [][\A t \in Threads :
          (/\ Returns(t, "install_ca_certificate")
           /\ ca_bundle_holds(cfg, files, installed.certificate, installed.certificate_type))
          => /\ ret'.result = "Accepted"
             /\ SameBundle(cfg, files, files', installed.certificate, installed.certificate_type)]_vars

\* C12, amended: the same, for a call made while the store is not full and
\* the certificate is still valid, and whose write of the bundle succeeds; a
\* failed write gives WriteError
C12_InstallIdempotent ==
    [][\A t \in Threads :
          (/\ Returns(t, "install_ca_certificate")
           /\ ca_bundle_holds(cfg, files, installed.certificate, installed.certificate_type)
           /\ ~is_filesystem_full(cfg, files)
           /\ is_valid(installed.certificate[1], now))
          => /\ ret'.result = IF installed.io THEN "Accepted" ELSE "WriteError"
             /\ ret'.result = "Accepted"
                => SameBundle(cfg, files, files', installed.certificate, installed.certificate_type)]_vars

\* the V2G root was installed a second time into the bundle file that held
\* it, with Accepted, and the bundle holds it
C12_Witness ==
    /\ ret.op = "install_ca_certificate"
    /\ ret.result = "Accepted"
    /\ ret.arg.held
    /\ ret.arg.certificate = <<V2G_ROOT>>
    /\ ca_bundle_holds(cfg, files, <<V2G_ROOT>>, ret.arg.certificate_type)

\* the PEM string holds one certificate or more, all of them valid now
ValidBundle(certificate, t) ==
    /\ Len(certificate) >= 1
    /\ \A i \in 1..Len(certificate) : is_valid(certificate[i], t)

\* the CA bundle of the type, read from the files, holds every certificate of the string
ReadBackHolds(c, fs, certificate, certificate_type) ==
    /\ ca_bundle(c, fs, certificate_type) # LoadError
    /\ \A i \in 1..Len(certificate) : contains_certificate(ca_bundle(c, fs, certificate_type), certificate[i])

\* C13 as stated: after install_ca_certificate of a PEM string of one or more
\* valid certificates into a store that is not full, the CA bundle read back
\* from disk contains every certificate of the string
C13_ReadBack_AsStated ==
    [][\A t \in Threads :
          (/\ Returns(t, "install_ca_certificate")
           /\ ValidBundle(installed.certificate, now)
           /\ ~is_filesystem_full(cfg, files))
          => ReadBackHolds(cfg, files', installed.certificate, installed.certificate_type)]_vars

\* C13, amended: a string of exactly one valid certificate, installed into a
\* store that is not full, gives Accepted when the bundle is written and
\* WriteError when it is not, and after Accepted the CA bundle read back from
\* disk contains the certificate; a string of two certificates or more gives
\* InvalidFormat and no file changes
C13_ReadBack ==
    [][\A t \in Threads :
          (/\ Returns(t, "install_ca_certificate")
           /\ ValidBundle(installed.certificate, now)
           /\ ~is_filesystem_full(cfg, files))
          => IF Len(installed.certificate) = 1
             THEN /\ ret'.result = IF installed.io THEN "Accepted" ELSE "WriteError"
                  /\ ret'.result = "Accepted"
                     => ReadBackHolds(cfg, files', installed.certificate, installed.certificate_type)
             ELSE ret'.result = "InvalidFormat" /\ files' = files]_vars

\* a root that the CSMS bundle did not hold was installed with Accepted and
\* is read back from the bundle
C13_Witness ==
    /\ ret.op = "install_ca_certificate"
    /\ ret.result = "Accepted"
    /\ ~ret.arg.held
    /\ ret.arg.certificate_type = "CSMS"
    /\ ReadBackHolds(cfg, files, ret.arg.certificate, "CSMS")

\* the files of the CA bundle of a type: the bundle file, or those of the directory
files_of_ca_bundle(c, fs, certificate_type) ==
    IF c.ca_bundle_path_map[certificate_type] \in Directories
    THEN FilesUnder(fs, c.ca_bundle_path_map[certificate_type])
    ELSE {c.ca_bundle_path_map[certificate_type]}

\* every file that is not of the CA bundle of the type is in fs1 what it was in fs
OthersSame(c, fs, fs1, certificate_type) ==
    \A p \in (DOMAIN fs \cup DOMAIN fs1) \ (files_of_ca_bundle(c, fs, certificate_type)
                                              \cup files_of_ca_bundle(c, fs1, certificate_type)) :
        p \in DOMAIN fs /\ p \in DOMAIN fs1 /\ fs[p] = fs1[p]

\* the call that returned last was an Accepted install_ca_certificate of a
\* certificate its CA bundle did not hold, and the delete_certificate that
\* returns in this step has the hash of that certificate and is Accepted
DeletesInstalled(t) ==
    /\ Returns(t, "delete_certificate")
    /\ ret.op = "install_ca_certificate"
    /\ ret.result = "Accepted"
    /\ ~ret.arg.held
    /\ ret'.arg = get_certificate_hash_data_self(ret.arg.certificate[1])
    /\ ret'.result = "Accepted"

\* C14 as stated: an Accepted install_ca_certificate of a certificate the CA
\* bundle of its type did not hold changes no file of another bundle or of a
\* leaf directory, and an Accepted delete_certificate of its hash that follows
\* leaves the bundle with exactly the certificates it held before the install
\* and changes no other file either
C14_DeleteRestores_AsStated ==
    [][\A t \in Threads :
          /\ (Returns(t, "install_ca_certificate") /\ ret'.result = "Accepted" /\ ~installed.held)
             => OthersSame(cfg, files, files', installed.certificate_type)
          /\ DeletesInstalled(t)
             => /\ ca_certificates(cfg, files')[ret.arg.certificate_type] = ret.arg.before[ret.arg.certificate_type]
                /\ OthersSame(cfg, files, files', ret.arg.certificate_type)]_vars

\* no CA bundle held the certificate or a certificate issued by it
NewToStore(before, certificate) ==
    \A ty \in DOMAIN before :
        /\ certificate \notin before[ty]
        /\ \A x \in before[ty] : ~x509_is_child(x, certificate)

\* C14, amended: the same for a certificate that, before the install, no CA
\* bundle held and that had issued no certificate of a CA bundle
C14_DeleteRestores ==
    [][\A t \in Threads :
          /\ (Returns(t, "install_ca_certificate") /\ ret'.result = "Accepted" /\ ~installed.held)
             => OthersSame(cfg, files, files', installed.certificate_type)
          /\ (DeletesInstalled(t) /\ NewToStore(ret.arg.before, ret.arg.certificate[1]))
             => /\ ca_certificates(cfg, files')[ret.arg.certificate_type] = ret.arg.before[ret.arg.certificate_type]
                /\ OthersSame(cfg, files, files', ret.arg.certificate_type)]_vars

\* the V2G root was installed into a CSMS bundle that held another root,
\* no bundle holding the V2G root, and deleted again: the other root is still there
C14_Witness ==
    /\ ret.op = "delete_certificate"
    /\ ret.result = "Accepted"
    /\ ret.arg = get_certificate_hash_data_self(V2G_ROOT)
    /\ ca_certificates(cfg, files)["CSMS"] = {SHORT_ROOT}
    /\ V2G_ROOT \notin ca_certificates(cfg, files)["V2G"]

\* C15 as stated: install_ca_certificate of a certificate whose validity has
\* ended returns Expired and no file of the store is created, changed or removed
C15_ExpiredRefused_AsStated ==
    [][\A t \in Threads :
          (/\ Returns(t, "install_ca_certificate")
           /\ Len(installed.certificate) = 1
           /\ is_expired(installed.certificate[1], now))
          => ret'.result = "Expired" /\ files' = files]_vars

\* C15, amended: the same in a store that is not full; in a full store the
\* result is CertificateStoreMaxLengthExceeded, and no file changes either
C15_ExpiredRefused ==
    [][\A t \in Threads :
          (/\ Returns(t, "install_ca_certificate")
           /\ Len(installed.certificate) = 1
           /\ is_expired(installed.certificate[1], now))
          => /\ ret'.result = IF is_filesystem_full(cfg, files) THEN "CertificateStoreMaxLengthExceeded"
                              ELSE "Expired"
             /\ files' = files]_vars

\* the root whose validity ended at time 0 was refused as Expired after it,
\* by a store that had accepted it before
C15_Witness ==
    /\ ret.op = "install_ca_certificate"
    /\ ret.result = "Expired"
    /\ ret.arg.certificate = <<SHORT_ROOT>>
    /\ ret.arg.held
    /\ is_expired(SHORT_ROOT, now)

----------------------------------------------------------------------------
(* update_leaf_certificate and generate_certificate_signing_request *)

\* the argument record of the update_leaf_certificate call that returns in this step
updated == ret'.arg

\* a call of install_ca_certificate or update_leaf_certificate returns in this
\* step whose certificate text holds no certificate
ReturnsUnparsed(t) ==
    \/ Returns(t, "install_ca_certificate") /\ installed.certificate = <<>>
    \/ Returns(t, "update_leaf_certificate") /\ updated.certificate_chain = <<>>

\* C16 as stated: install_ca_certificate and update_leaf_certificate, given a
\* text that cannot be parsed into a certificate, return InvalidFormat and
\* leave every file and the table of pending requests as they were
C16_UnparsedRefused_AsStated ==
    [][\A t \in Threads :
          ReturnsUnparsed(t)
          => /\ ret'.result = "InvalidFormat"
             /\ files' = files
             /\ managed_csr' = managed_csr]_vars

\* C16, amended: the files and the table are left as they were, and the
\* result is InvalidFormat unless the store is full, which gives
\* CertificateStoreMaxLengthExceeded, or the type given to
\* update_leaf_certificate is neither CSMS nor V2G, which gives WriteError
C16_UnparsedRefused ==
    [][\A t \in Threads :
          ReturnsUnparsed(t)
          => /\ ret'.result =
                    IF is_filesystem_full(cfg, files) THEN "CertificateStoreMaxLengthExceeded"
                    ELSE IF ret'.op = "update_leaf_certificate" /\ updated.certificate_type \notin {"CSMS", "V2G"}
                    THEN "WriteError"
                    ELSE "InvalidFormat"
             /\ files' = files
             /\ managed_csr' = managed_csr]_vars

\* update_leaf_certificate was given a text without a certificate while a
\* request was pending, and returned InvalidFormat
C16_Witness ==
    /\ ret.op = "update_leaf_certificate"
    /\ ret.arg.certificate_chain = <<>>
    /\ ret.result = "InvalidFormat"
    /\ managed_csr # EmptyMap

\* the result the claim gives for an outcome of the verification that is not Valid
ResultFor(r) ==
    CASE r = "Expired" -> "Expired"
      [] r = "InvalidSignature" -> "InvalidSignature"
      [] r = "InvalidChain" -> "InvalidCertificateChain"
      [] r = "IssuerNotFound" -> "NoRootCertificateInstalled"

\* the outcome of the verification that update_leaf_certificate makes of chain
Verification(c, fs, t, chain, certificate_type) ==
    verify_certificate_internal(c, fs, t, chain, {certificate_type})

\* update_leaf_certificate gets as far as the verification of the chain
Verifies(c, fs, chain, certificate_type) ==
    /\ ~is_filesystem_full(c, fs)
    /\ certificate_type \in {"CSMS", "V2G"}
    /\ chain # <<>>

C18_TableKeptUnlessAccepted ==
    [][\A t \in Threads :
          (Returns(t, "update_leaf_certificate") /\ ret'.result # "Accepted")
          => managed_csr' = managed_csr]_vars

\* the argument record of the generate_certificate_signing_request call that
\* returns in this step
requested == ret'.arg

\* the table csr1 is the table csr with one more entry, for the key file p
\* that fs1 holds and fs did not
Inserted(csr, csr1, fs, fs1, p) ==
    /\ p \notin DOMAIN csr
    /\ DOMAIN csr1 = DOMAIN csr \cup {p}
    /\ \A q \in DOMAIN csr : csr1[q] = csr[q]
    /\ p \notin DOMAIN fs
    /\ p \in DOMAIN fs1 /\ fs1[p].kind = "key"

\* C19: generate_certificate_signing_request for a type that is neither CSMS
\* nor V2G returns InvalidRequestedType and creates no key file and no entry
\* of the table of pending requests; for CSMS and V2G the table gets an entry,
\* keyed by the path of the new key file, exactly when the call returns Accepted
C19_EntryIffAccepted ==
    [][\A t \in Threads :
          Returns(t, "generate_certificate_signing_request")
          => IF requested.certificate_type \notin {"CSMS", "V2G"}
             THEN /\ ret'.result = "InvalidRequestedType"
                  /\ files' = files
                  /\ managed_csr' = managed_csr
             ELSE IF ret'.result = "Accepted"
             THEN /\ requested.key_path # None
                  /\ Inserted(managed_csr, managed_csr', files, files', requested.key_path[1])
             ELSE managed_csr' = managed_csr]_vars

\* a request for CSMS was accepted: its key file is there and the table has
\* the entry for it
C19_Witness ==
    /\ ret.op = "generate_certificate_signing_request"
    /\ ret.result = "Accepted"
    /\ ret.arg.certificate_type = "CSMS"
    /\ ret.arg.key_path[1] \in DOMAIN managed_csr
    /\ ret.arg.key_path[1] \in DOMAIN files

----------------------------------------------------------------------------
(* get_leaf_certificate_info *)

\* the bundle of the leaf certificate directory of a type
leaf_bundle(c, fs, certificate_type) == BundleOfPath(fs, Directories, leaf_cert_directory(c, certificate_type))

\* the leaves of the chains of the leaf directory of a type that are valid at
\* t and have a matching private key file
UsableLeaves(c, fs, t, certificate_type) ==
    IF leaf_bundle(c, fs, certificate_type) = LoadError THEN {}
    ELSE {leaf_bundle(c, fs, certificate_type).certificates[q][1] :
             q \in {r \in NonEmptyChains(leaf_bundle(c, fs, certificate_type)) :
                       /\ is_valid(leaf_bundle(c, fs, certificate_type).certificates[r][1], t)
                       /\ get_private_key_path_of_certificate(
                              fs, leaf_bundle(c, fs, certificate_type).certificates[r][1], Some(r),
                              leaf_key_directory(c, certificate_type)) # None}}

\* the CertificateInfo is that of the leaf: its files begin with the leaf
InfoOf(fs, info, leaf) ==
    /\ info.leaf = Some(leaf)
    /\ info.certificate # None \/ info.certificate_single # None
    /\ info.certificate # None => fs[info.certificate[1]].certs[1] = leaf
    /\ info.certificate_single # None => fs[info.certificate_single[1]].certs = <<leaf>>

\* an Accepted get_leaf_certificate_info returns a usable leaf of the type
\* asked for that no usable leaf outlives
ReturnsNewest(t) ==
    (Returns(t, "get_leaf_certificate_info") /\ ret'.result = "Accepted")
    => \E leaf \in UsableLeaves(cfg, files, now, ret'.arg.certificate_type) :
          /\ InfoOf(files, ret'.arg.info, leaf)
          /\ \A x \in UsableLeaves(cfg, files, now, ret'.arg.certificate_type) :
                 get_valid_to(x, now) <= get_valid_to(leaf, now)

\* the call that returned last was an Accepted update_leaf_certificate of a
\* chain whose leaf outlives every other usable leaf of the type, and
\* get_leaf_certificate_info for that type returns in this step
AsksAfterRenewal(t) ==
    /\ Returns(t, "get_leaf_certificate_info")
    /\ ret.op = "update_leaf_certificate"
    /\ ret.result = "Accepted"
    /\ ret'.arg.certificate_type = ret.arg.certificate_type
    /\ \A x \in UsableLeaves(cfg, files, now, ret.arg.certificate_type) \ {ret.arg.certificate_chain[1]} :
           get_valid_to(x, now) < get_valid_to(ret.arg.certificate_chain[1], now)

\* C20 as stated: an Accepted get_leaf_certificate_info returns the chain
\* whose leaf has the greatest valid_to among the chains of the leaf directory
\* with a valid leaf and a matching key; asked after the install of a chain
\* with a later valid_to and a matching key, it returns that chain
C20_NewestLeaf_AsStated ==
    [][\A t \in Threads :
          /\ ReturnsNewest(t)
          /\ AsksAfterRenewal(t)
             => /\ ret'.result = "Accepted"
                /\ InfoOf(files, ret'.arg.info, ret.arg.certificate_chain[1])]_vars

\* C20, amended: the same, the new chain being returned when its leaf is
\* valid at the time of the question
C20_NewestLeaf ==
    [][\A t \in Threads :
          /\ ReturnsNewest(t)
          /\ (AsksAfterRenewal(t) /\ is_valid(ret.arg.certificate_chain[1], now))
             => /\ ret'.result = "Accepted"
                /\ InfoOf(files, ret'.arg.info, ret.arg.certificate_chain[1])]_vars

\* with the old leaf and the renewed one in the SECC leaf directory, both
\* valid and with their keys, the renewed one was returned
C20_Witness ==
    /\ ret.op = "get_leaf_certificate_info"
    /\ ret.result = "Accepted"
    /\ ret.arg.certificate_type = "V2G"
    /\ ret.arg.info.leaf = Some(LEAF_BOTH)
    /\ {OLD_LEAF, LEAF_BOTH} \subseteq UsableLeaves(cfg, files, now, "V2G")

----------------------------------------------------------------------------
(* The statuses of get_leaf_certificate_info *)

\* the certificate files of the leaf certificate directory of a type
leaf_certificate_files(c, fs, certificate_type) ==
    {p \in FilesUnder(fs, leaf_cert_directory(c, certificate_type)) : is_certificate_file(fs, p)}

\* those whose first certificate, the leaf, is valid at t
valid_leaf_files(c, fs, t, certificate_type) ==
    {p \in leaf_certificate_files(c, fs, certificate_type) :
        load_certificates(fs[p]) # <<>> /\ is_valid(load_certificates(fs[p])[1], t)}

\* those of them whose leaf has a private key file
keyed_leaf_files(c, fs, t, certificate_type) ==
    {p \in valid_leaf_files(c, fs, t, certificate_type) :
        get_private_key_path_of_certificate(fs, load_certificates(fs[p])[1], Some(p),
                                            leaf_key_directory(c, certificate_type)) # None}

\* the status the store calls for
StatusOf(c, fs, t, certificate_type) ==
    IF certificate_type \notin {"CSMS", "V2G"} THEN "Rejected"
    ELSE IF \A p \in leaf_certificate_files(c, fs, certificate_type) : load_certificates(fs[p]) = <<>>
    THEN "NotFound"
    ELSE IF valid_leaf_files(c, fs, t, certificate_type) = {} THEN "NotFoundValid"
    ELSE IF keyed_leaf_files(c, fs, t, certificate_type) = {} THEN "PrivateKeyNotFound"
    ELSE "Accepted"

----------------------------------------------------------------------------
(* The OCSP cache *)

\* the hashes of the certificates of the chain files of the SECC leaf
\* directory, each against its issuer in the V2G hierarchy
chain_hashes(c, fs) ==
    LET hashes(h) == IF h = LoadError THEN {}
                     ELSE {h.node[i].hash : i \in {j \in 1..Len(h.node) :
                              /\ h.node[j].hash # NoHash
                              /\ IsPrefix(c.secc_leaf_cert_directory, h.node[j].certificate.file)}}
    IN hashes(ocsp_hierarchy(c, fs, c.secc_leaf_cert_directory))

\* retrieve_ocsp_cache returns in this step, for the hash of a certificate of
\* an installed V2G chain, and the call before it was an update_ocsp_cache
\* for the same hash whose writes succeeded
RetrievesUpdated(t) ==
    /\ Returns(t, "retrieve_ocsp_cache")
    /\ ret.op = "update_ocsp_cache"
    /\ ret.arg.io_data /\ ret.arg.io_hash
    /\ ret'.arg.certificate_hash_data = ret.arg.certificate_hash_data
    /\ ret.arg.certificate_hash_data \in chain_hashes(cfg, files)

\* C22: with a V2G leaf chain installed, update_ocsp_cache(h, R) for the hash
\* h of a certificate of the chain followed by retrieve_ocsp_cache(h) returns
\* the path of a file whose content is R, in every directory configuration
C22_OcspRoundTrip ==
    [][\A t \in Threads :
          RetrievesUpdated(t)
          => /\ ret'.result # None
             /\ files[ret'.result[1]] = OcspFile(ret.arg.ocsp_response)]_vars

\* C23: each OCSP folder holds at most one hash file per CertificateHashData,
\* and every hash file has its paired .der file
C23_OcspPairs ==
    \A p \in DOMAIN files :
        files[p].kind = "hash"
        => /\ exists(files, replace_extension(p, EXT_DER))
           /\ \A q \in FilesIn(files, parent_path(p)) :
                  (files[q].kind = "hash" /\ files[q].hash = files[p].hash) => q = p

----------------------------------------------------------------------------
(* verify_certificate *)

\* the last call, verify_certificate
verified == ret'.arg

\* none of the types asked for has a root installed
NoRootInstalled(c, fs, t, certificate_types) ==
    \A ty \in certificate_types : ~is_ca_certificate_installed_internal(c, fs, t, ty)

\* C24 as stated: verify_certificate returns IssuerNotFound whenever the list
\* of types is empty or none of the types asked for has a root installed
C24_NoAnchor_AsStated ==
    [][\A t \in Threads :
          (Returns(t, "verify_certificate") /\ NoRootInstalled(cfg, files, now, verified.certificate_types))
          => ret'.result = "IssuerNotFound"]_vars

\* C24, amended: IssuerNotFound whenever the list of types is empty, and
\* whenever none of the types asked for has a root installed and the chain
\* holds a certificate; Unknown when types are asked for and the chain holds none
C24_NoAnchor ==
    [][\A t \in Threads :
          (Returns(t, "verify_certificate") /\ NoRootInstalled(cfg, files, now, verified.certificate_types))
          => /\ verified.trusted_parent_certificates = {}
             /\ ret'.result = IF verified.certificate_types # {} /\ verified.certificate_chain = <<>>
                              THEN "Unknown" ELSE "IssuerNotFound"]_vars

\* V2G was asked for with a leaf and the sub-CA that issued it while the V2G
\* bundle held that sub-CA and no root: IssuerNotFound
C24_Witness ==
    /\ ret.op = "verify_certificate"
    /\ ret.result = "IssuerNotFound"
    /\ ret.arg.certificate_types = {"V2G"}
    /\ ret.arg.certificate_chain = <<LEAF_SECC, SUB_CA>>
    /\ ca_certificates(cfg, files)["V2G"] = {SUB_CA}

\* C25: the trusted parents of verify_certificate are certificates of the CA
\* bundles of the types asked for, none of them taken from the chain; the
\* untrusted intermediates are the certificates of the chain after the first
\* that are not self-signed; the leaf is the first certificate of the chain
C25_PoolFromBundles ==
    [][\A t \in Threads :
          Returns(t, "verify_certificate")
          => /\ verified.trusted_parent_certificates \subseteq
                    UNION {ca_certificates(cfg, files)[ty] : ty \in verified.certificate_types}
             /\ \A i \in 1..Len(verified.certificate_chain) :
                    verified.certificate_chain[i] \in verified.trusted_parent_certificates
                    => \E ty \in verified.certificate_types :
                           verified.certificate_chain[i] \in ca_certificates(cfg, files)[ty]
             /\ verified.untrusted_subcas =
                    {verified.certificate_chain[i] : i \in {k \in 2..Len(verified.certificate_chain) :
                                                               ~x509_is_selfsigned(verified.certificate_chain[k])}}
             /\ verified.certificate_chain # <<>>
                => verified.leaf_certificate = Some(Head(verified.certificate_chain))]_vars

\* CSMS and V2G were asked for with a chain of leaf, sub-CA and root while the
\* V2G bundle held the root: the root is a trusted parent, the sub-CA the
\* one untrusted intermediate
C25_Witness ==
    /\ ret.op = "verify_certificate"
    /\ ret.result = "Valid"
    /\ ret.arg.certificate_chain = <<LEAF_SECC, SUB_CA, V2G_ROOT>>
    /\ ret.arg.trusted_parent_certificates = {V2G_ROOT}
    /\ ret.arg.untrusted_subcas = {SUB_CA}

----------------------------------------------------------------------------
(* update_certificate_links *)

\* the link is absent or holds the path `target`; with None it is absent
LinkTo(fs, link_path, target) ==
    fs_is_symlink(fs, link_path[1]) => (target # None /\ fs[link_path[1]].target = target[1])

\* C26: after update_certificate_links(V2G) each link that exists holds the
\* path of the file of the selected V2G leaf: the certificate link that of its
\* single file, the key link that of its key, the chain link that of its chain
\* file; without a valid V2G leaf with a key no link remains; a call that
\* follows another at once returns false and changes nothing
C26_LinksCurrent ==
    [][\A t \in Threads :
          Returns(t, "update_certificate_links")
          => /\ LinkTo(files', Links.secc_leaf_cert_link, ret'.arg.key_pair.certificate_single)
             /\ LinkTo(files', Links.secc_leaf_key_link, ret'.arg.key_pair.key)
             /\ LinkTo(files', Links.cpo_cert_chain_link, ret'.arg.key_pair.certificate)
             /\ (ret.op = "update_certificate_links" /\ ret.arg.at = now)
                => (ret'.result = FALSE /\ files' = files)]_vars

----------------------------------------------------------------------------
(* get_installed_certificates for a root certificate type *)

\* the certificates of `certs` that a certificate of S issued
IssuedBy(S, certs) == {x \in certs : ~x509_is_selfsigned(x) /\ \E p \in S : x509_is_child(x, p)}

\* the certificates of `certs` below the certificates of S
RECURSIVE DescendantsOf(_, _)
DescendantsOf(S, certs) ==
    IF IssuedBy(S, certs) \subseteq S THEN S ELSE DescendantsOf(S \cup IssuedBy(S, certs), certs)

\* the hashes of the certificates of `certs` below root, each against its issuer
DescendantHashes(root, certs) ==
    {get_certificate_hash_data(d, p) : <<d, p>> \in
        {dp \in (DescendantsOf({root}, certs) \ {root}) \X DescendantsOf({root}, certs) :
            x509_is_child(dp[1], dp[2])}}

\* the last call, get_installed_certificates
listed == ret'.arg

\* the chains list the self-signed certificates of `certs`, each once, each
\* with the hashes of all the certificates below it, each once
ListsRoots(chains, certs) ==
    /\ {chains[k].certificate_hash_data : k \in 1..Len(chains)}
           = {get_certificate_hash_data_self(x) : x \in {y \in certs : x509_is_selfsigned(y)}}
    /\ Len(chains) = Cardinality({y \in certs : x509_is_selfsigned(y)})
    /\ \A k \in 1..Len(chains) : \A x \in {y \in certs : x509_is_selfsigned(y)} :
           chains[k].certificate_hash_data = get_certificate_hash_data_self(x)
           => /\ Range(chains[k].child_certificate_hash_data) = DescendantHashes(x, certs)
              /\ Len(chains[k].child_certificate_hash_data) = Cardinality(DescendantsOf({x}, certs)) - 1

\* get_installed_certificates returns in this step for the type of the
\* accepted install_ca_certificate of a new certificate that came before it
ListsAfterInstall(t) ==
    /\ Returns(t, "get_installed_certificates")
    /\ ret.op = "install_ca_certificate"
    /\ ret.result = "Accepted"
    /\ ret.arg.certificate_type = listed.certificate_type
    /\ ret.arg.certificate[1] \notin ret.arg.before[listed.certificate_type]

\* the number of entries is that of the roots the bundle held before the
\* install, and one more when a root was installed
CountsRoots ==
    Len(listed.certificate_hash_data_chain)
        = Cardinality({y \in ret.arg.before[listed.certificate_type] : x509_is_selfsigned(y)})
          + (IF x509_is_selfsigned(ret.arg.certificate[1]) THEN 1 ELSE 0)

\* every certificate an install can bring
KnownCertificates == UNION {Range(certificate) : certificate \in RootInputs}

----------------------------------------------------------------------------
(* The queries change nothing *)

\* a query is in progress
Asking == \E t \in Threads : pc[t] \in QueryOps

\* t returns from a query that asks what the call completed last asked
AsksAgain(t) ==
    /\ \E op \in QueryOps : Returns(t, op) /\ ret.op = op
    /\ ret'.op = ret.op
    /\ ret'.arg.asked = ret.arg.asked

----------------------------------------------------------------------------
(* The hierarchy of a set of certificates *)

Nodes(h) == 1..Len(h.node)

\* the nodes that are the child of a node
ChildNodes(h) == UNION {Range(h.node[i].children) : i \in Nodes(h)}

\* the forest of a hierarchy: its top-level certificates and its pairs of
\* parent and child, or that InvalidStateException was thrown
Forest(h) ==
    IF h.error THEN [thrown |-> TRUE, top |-> {}, child |-> {}]
    ELSE [thrown |-> FALSE,
          top |-> {h.node[h.top[k]].certificate : k \in 1..Len(h.top)},
          child |-> UNION {{<<h.node[i].certificate, h.node[j].certificate>> : j \in Range(h.node[i].children)} :
                              i \in Nodes(h)}]

\* the orders in which a list can be given
OrdersOf(s) == {p \in ListsOf(Range(s), Len(s)) : Range(p) = Range(s)}

\* the certificates given to build_hierarchy and the hierarchy it returned
built == ret.result

\* the same subject and key in two certificates of a list
SharesKey(s) == \E i, j \in 1..Len(s) : i # j /\ s[i].subject = s[j].subject /\ s[i].key = s[j].key

\* C29: every order of the certificates given to build_hierarchy gives the
\* same top-level certificates and the same pairs of parent and child
C29_OrderIndependent ==
    ret.op = "build_hierarchy" => \A p \in OrdersOf(ret.arg) : Forest(build_hierarchy(p)) = Forest(built)

\* build_hierarchy returned the hierarchy of a root, its sub-CA and the two
\* certificates of the sub-CA, which were inserted before the sub-CA
C30_Witness ==
    /\ ret.op = "build_hierarchy"
    /\ ~built.error
    /\ Forest(built).top = {V2G_ROOT}
    /\ Forest(built).child = {<<V2G_ROOT, SUB_CA>>, <<SUB_CA, SUB_CA2>>, <<SUB_CA, LEAF_SECC>>}
    /\ ret.arg = <<SUB_CA, LEAF_SECC, SUB_CA2, V2G_ROOT>>

\* C30: in the hierarchy that build_hierarchy returns, every node that is not
\* top-level is the child of one node, whose certificate is its stored issuer
\* and issued it, and its stored hash is the hash data computed against that
\* issuer
C30_ChildrenLinked ==
    ret.op = "build_hierarchy" /\ ~built.error =>
        /\ ChildNodes(built) \cup Range(built.top) = Nodes(built)
        /\ ChildNodes(built) \cap Range(built.top) = {}
        /\ \A j \in ChildNodes(built) :
               \E i \in Nodes(built) :
                   /\ j \in Range(built.node[i].children)
                   /\ \A k \in Nodes(built) : j \in Range(built.node[k].children) => k = i
                   /\ built.node[j].issuer = built.node[i].certificate
                   /\ x509_is_child(built.node[j].certificate, built.node[j].issuer)
                   /\ built.node[j].hash # NoHash
                   /\ built.node[j].hash =
                          get_certificate_hash_data(built.node[j].certificate, built.node[j].issuer)

----------------------------------------------------------------------------
(* The nodes of a hierarchy that was built *)

\* build_hierarchy has returned a hierarchy
Built == ret.op \in BuildOps /\ ~built.error

\* the top-level nodes of the hierarchy
TopNodes(h) == Range(h.top)

\* C31: in the hierarchy that build_hierarchy returns no self-signed
\* certificate is the child of a node: every self-signed certificate given is
\* in a top-level node, and every node of a self-signed certificate is
\* top-level, marked is_selfsigned and holds the certificate's own hash
C31_RootsOnTop ==
    Built =>
        /\ \A c \in Range(ret.arg) :
               x509_is_selfsigned(c) => \E i \in TopNodes(built) : built.node[i].certificate = c
        /\ \A i \in Nodes(built) :
               x509_is_selfsigned(built.node[i].certificate) =>
                   /\ i \in TopNodes(built)
                   /\ i \notin ChildNodes(built)
                   /\ built.node[i].is_selfsigned
                   /\ built.node[i].hash = get_certificate_hash_data_self(built.node[i].certificate)
        /\ \A i \in Nodes(built) : built.node[i].is_selfsigned => x509_is_selfsigned(built.node[i].certificate)

\* two roots were given after the sub-CA of one of them
C31_Witness ==
    /\ Built
    /\ ret.arg = <<V2G_ROOT, OTHER_ROOT, SUB_CA>>
    /\ Forest(built).top = {V2G_ROOT, OTHER_ROOT}
    /\ Forest(built).child = {<<V2G_ROOT, SUB_CA>>}

\* an issuer of c among the certificates given
IssuerGiven(c, certs) == \E p \in Range(certs) : p # c /\ x509_is_child(c, p)

\* C32: in the hierarchy that build_hierarchy returns, no certificate whose
\* issuer was given as well is in a top-level node: it is the child of a
\* node of a certificate that issued it
C32_IssuedBelowIssuer ==
    Built =>
        \A j \in Nodes(built) :
            (~x509_is_selfsigned(built.node[j].certificate) /\ IssuerGiven(built.node[j].certificate, ret.arg)) =>
                /\ j \notin TopNodes(built)
                /\ \E i \in Nodes(built) :
                       /\ j \in Range(built.node[i].children)
                       /\ x509_is_child(built.node[j].certificate, built.node[i].certificate)

\* the sub-CA was inserted after the two certificates it issued, without its root
C32_Witness ==
    /\ Built
    /\ ret.arg = <<SUB_CA, SUB_CA2, LEAF_SECC>>
    /\ Forest(built).top = {SUB_CA}
    /\ Forest(built).child = {<<SUB_CA, SUB_CA2>>, <<SUB_CA, LEAF_SECC>>}

\* the hierarchy and the certificate of a call of get_certificate_hash
asked == ret.arg

\* the nodes of the certificate asked for that hold a hash
HashedNodes == {i \in Nodes(asked.hierarchy) : /\ asked.hierarchy.node[i].certificate = asked.certificate
                                               /\ asked.hierarchy.node[i].hash # NoHash}

\* C33: get_certificate_hash gives the own hash of a self-signed certificate
\* and the hash stored in a node of any other, and reports a failure without
\* a hash when the certificate is not self-signed and no node of it holds a
\* hash
C33_HashOrFailure ==
    ret.op = "get_certificate_hash" =>
        IF x509_is_selfsigned(asked.certificate)
        THEN ret.result = [ok |-> TRUE, out_hash |-> get_certificate_hash_data_self(asked.certificate)]
        ELSE IF HashedNodes # {}
        THEN ret.result.ok /\ \E i \in HashedNodes : ret.result.out_hash = asked.hierarchy.node[i].hash
        ELSE ret.result = [ok |-> FALSE, out_hash |-> NoHash]

\* C34: in the hierarchy that build_hierarchy returns for certificates that
\* are not none, every top-level node that is not self-signed is marked a
\* permanent orphan and holds no hash
C34_OrphansMarked ==
    Built /\ ret.arg # <<>> =>
        \A i \in TopNodes(built) :
            ~built.node[i].is_selfsigned => built.node[i].is_orphan /\ built.node[i].hash = NoHash

\* no certificate given is above itself in the relation of issuer and issued
RECURSIVE IssuersOf(_, _, _)
IssuersOf(c, certs, fuel) ==
    LET direct == {p \in Range(certs) : p # c /\ x509_is_child(c, p)}
    IN IF fuel = 0 THEN direct ELSE direct \cup UNION {IssuersOf(p, certs, fuel - 1) : p \in direct}

Acyclic(certs) == \A c \in Range(certs) : c \notin IssuersOf(c, certs, Len(certs))

\* C38: build_hierarchy returns a hierarchy, without InvalidStateException,
\* for all certificates whose relation of issuer and issued has no cycle,
\* also when a certificate is given twice
C38_NeverThrows ==
    ret.op \in BuildOps /\ Acyclic(ret.arg) => ~built.error

\* how many times a certificate is in a list
CountIn(s, c) == Cardinality({k \in 1..Len(s) : s[k] = c})

\* C39: the nodes of the hierarchy that build_hierarchy returns hold the
\* certificates given, each as many times as it was given, and every node
\* is reached once from the top-level nodes
C39_NothingLost ==
    Built =>
        /\ Len(built.node) = Len(ret.arg)
        /\ \A c \in HierarchyCerts :
               CountIn([i \in Nodes(built) |-> built.node[i].certificate], c) = CountIn(ret.arg, c)
        /\ Range(for_each(built)) = Nodes(built)
        /\ Len(for_each(built)) = Len(built.node)

\* the sub-CA was given twice, in the bundle and in the chain of the leaf,
\* and both are in the hierarchy below the root
C39_Witness ==
    /\ Built
    /\ ret.op = "build_hierarchy2"
    /\ ret.arg = <<V2G_ROOT, SUB_CA, LEAF_SECC, SUB_CA>>
    /\ Len(built.top) = 1
    /\ Cardinality(ChildNodes(built)) = 3

----------------------------------------------------------------------------
(* The bundle object *)

\* C35: the hierarchy that get_certficate_hierarchy returns is the one built
\* from the certificates the bundle holds at the time of the call, whatever
\* was called on the bundle before
C35_HierarchyCurrent ==
    [][ret.op \in BundleOps /\ ret'.op = "get_certficate_hierarchy"
           => ret'.arg = build_hierarchy(split(unwrapped(held)))]_vars

\* C36: after the construction of a file or directory bundle and after every
\* add_certificate, add_certificate_unique and update_certificate on it, every
\* wrapper held in the list of a chain file has that file as its file
C36_FileIsKey ==
    ret.op \in {"X509CertificateBundle", "add_certificate", "add_certificate_unique", "update_certificate"} =>
        \A p \in DOMAIN held.certificates :
            \A k \in 1..Len(held.certificates[p]) : held.certificates[p][k].file = Some(p)

\* C37: an export of a file bundle that succeeds leaves no file when the
\* bundle holds no certificate, and otherwise the file with the certificates
\* of the bundle
C37_ExportFile ==
    [][ret.op \in BundleOps /\ ret'.op = "export_certificates" /\ held.source = "FILE" /\ ret'.arg.ok
           => IF split(unwrapped(held)) = <<>>
              THEN held.path \notin DOMAIN files'
              ELSE held.path \in DOMAIN files' /\ files'[held.path] = PemFile(split(unwrapped(held)))]_vars

----------------------------------------------------------------------------
(* Waiting for the mutex *)

----------------------------------------------------------------------------
(* garbage_collect *)

\* the chain files of a leaf directory: its certificate files that hold a certificate
chain_files(c, fs, leaf_type) ==
    NonEmptyChains(BundleOfPath(fs, Directories, leaf_cert_directory(c, leaf_type)))

\* the valid_to of the leaf of a chain file
leaf_valid_to(fs, p) == load_certificates(fs[p])[1].not_after

\* the key file p matches the leaf of a chain file of a leaf directory of fs1
key_of_chain_file(c, fs, p, fs1) ==
    \E leaf_type \in {"CSMS", "V2G"} : \E q \in chain_files(c, fs1, leaf_type) :
        KeyMatches(fs, p, load_certificates(fs1[q])[1])

\* the files that are CA bundle files or lie inside a CA bundle directory
ca_bundle_files(c, fs) ==
    UNION {IF c.ca_bundle_path_map[CaTypes[k]] \in Directories
           THEN FilesUnder(fs, c.ca_bundle_path_map[CaTypes[k]])
           ELSE {c.ca_bundle_path_map[CaTypes[k]]} \cap DOMAIN fs : k \in 1..4}

\* C4: a pass of garbage_collect deletes no key file that matches the leaf
\* of a chain file still in a leaf certificate directory after the pass
C4_KeysOfChainsKept ==
    [][\A t \in Threads :
          Returns(t, "garbage_collect")
          => \A p \in DOMAIN files \ DOMAIN files' :
                 files[p].kind = "key" => ~key_of_chain_file(cfg, files, p, files')]_vars

\* C5: in each leaf certificate directory a pass deletes a chain file only if
\* ten chain files with a valid_to at least as great stay, so that
\* min(10, number of chain files before) chain files are there after the pass
C5_NewestChainsKept ==
    [][\A t \in Threads :
          Returns(t, "garbage_collect")
          => \A leaf_type \in {"CSMS", "V2G"} :
                 /\ \A p \in chain_files(cfg, files, leaf_type) \ DOMAIN files' :
                        Cardinality({q \in chain_files(cfg, files, leaf_type) \cap DOMAIN files' :
                                        /\ files'[q] = files[q]
                                        /\ leaf_valid_to(files, q) >= leaf_valid_to(files, p)})
                        >= DEFAULT_MINIMUM_CERTIFICATE_ENTRIES
                 /\ \/ Cardinality(chain_files(cfg, files', leaf_type))
                          >= DEFAULT_MINIMUM_CERTIFICATE_ENTRIES
                    \/ Cardinality(chain_files(cfg, files', leaf_type))
                          >= Cardinality(chain_files(cfg, files, leaf_type))]_vars

\* a pass over the store of eleven renewals has dropped the oldest one and
\* left the ten others
C5_Witness ==
    /\ ret.op = "garbage_collect"
    /\ cfg.max_fs_certificate_store_entries = 10
    /\ cfg.secc_leaf_cert_directory = D_CSO
    /\ FilePath(D_CSO, PFX_SECC_LEAF, 5, EXT_PEM) \notin DOMAIN files
    /\ Cardinality(chain_files(cfg, files, "V2G")) = DEFAULT_MINIMUM_CERTIFICATE_ENTRIES
    /\ \A i \in 2..11 : FilePath(D_CSO, PFX_SECC_LEAF, 4 + i, EXT_PEM) \in DOMAIN files

\* the key files made by generate_certificate_signing_request less than
\* csr_expiry ago
young_keys(c, fs, t, issued) ==
    {p \in DOMAIN fs : /\ fs[p].kind = "key"
                       /\ fs[p].key \in DOMAIN issued
                       /\ t - issued[fs[p].key] < c.csr_expiry}

\* C6 as stated: a pass deletes no key file that
\* generate_certificate_signing_request made less than csr_expiry ago
C6_YoungKeysKept_AsStated ==
    [][\A t \in Threads :
          Returns(t, "garbage_collect")
          => young_keys(cfg, files, now, csr_issued) \subseteq DOMAIN files']_vars

\* C6, amended: the same for the keys that match the leaf of no chain file
\* of a leaf certificate directory
C6_YoungKeysKept ==
    [][\A t \in Threads :
          Returns(t, "garbage_collect")
          => \A p \in young_keys(cfg, files, now, csr_issued) :
                 ~key_of_chain_file(cfg, files, p, files) => p \in DOMAIN files']_vars

\* a pass ran over a full store, dropped an expired chain, and the key of a
\* request that is still pending is there
C6_Witness ==
    /\ ret.op = "garbage_collect"
    /\ cfg.csr_expiry > 0
    /\ FilePath(D_CSO, PFX_SECC_LEAF, 5, EXT_PEM) \notin DOMAIN files
    /\ \E p \in young_keys(cfg, files, now, csr_issued) :
           p \in DOMAIN managed_csr /\ ~key_of_chain_file(cfg, files, p, files)

\* C7: a pass deletes or rewrites no CA bundle file and no file inside a CA
\* bundle directory
C7_BundlesUntouched ==
    [][\A t \in Threads :
          Returns(t, "garbage_collect")
          => Unchanged(files, files', ca_bundle_files(cfg, files))]_vars

----------------------------------------------------------------------------
(* The pending requests *)

\* the paths generate_certificate_signing_request gives to its keys
KeyPaths ==
    {FilePath(dir, pfx, rand, EXT_KEY) :
        dir \in {D_CSMS, D_CSO}, pfx \in {PFX_CSMS_LEAF, PFX_SECC_LEAF}, rand \in 0..MaxRand}

\* the entry of key file k in managed_csr is older than csr_expiry
CsrExpired(k) == k \in DOMAIN managed_csr /\ now - managed_csr[k] > cfg.csr_expiry

CsrRemoved(k) == k \notin DOMAIN managed_csr /\ k \notin DOMAIN files

====
